---- MODULE Spec2Model ----
(***************************************************************************)
(* A model of lingpy/algorithm/align.cpp: the five alignment kernels       *)
(* (_global, _local, _overlap, _repeats, _dialign), the scorer and the     *)
(* assembly of the output sequences in the drivers, and edit_dist.         *)
(*                                                                         *)
(* Numbers.  The C++ code computes in float.  Every value of the model is  *)
(* an integer; scale is given in halves (scale = 1 stands for 0.5, 2 for   *)
(* 1.0) and every gap weight is even, so that weight * scale is again an   *)
(* integer.  All values stay far below 2^24 in magnitude and are integers, *)
(* so float arithmetic on them is exact.                                   *)
(*                                                                         *)
(* Indices.  The C arrays arrayA, arrayB, and the Python lists are         *)
(* 0-based; sequences here are 1-based, so arrayA[j-1] of the code is      *)
(* arrayA[j] here.  matrix, traceback, scorer, almA and almB keep their    *)
(* 0-based indices (they are functions on 0..n).                           *)
(***************************************************************************)
EXTENDS Integers, Sequences, FiniteSets, TLC

\* op: the exported function that was called; pc: "called" while it runs,
\* then "returned", "raised" (a Python exception), "undefined" (a read
\* outside an array or of a variable without a value) or "crashed";
\* args: its arguments; loc: the locals of a driver over lists; scorer and
\* kern: the scorer and the kernel's matrices and gap counts of the last
\* pair aligned; ret: the value returned.
VARIABLES op, pc, args, loc, scorer, kern, ret

vars == <<op, pc, args, loc, scorer, kern, ret>>

\* the soft "forbidden" penalty of the kernels
Penalty == 1000000

\* the longest sequence handed to the alignment drivers
MaxLen == 2

Modes == {"global", "local", "overlap", "repeats", "dialign"}

\* weight * scale, scale in halves
Times(w, scale) == (w * scale) \div 2

Zeros(n) == [k \in 0..n |-> 0]

(***************************************************************************)
(* The scorer, as the drivers build it.                                    *)
(***************************************************************************)
\* faulty variant: the bonus for equal prosody is added, not multiplied
MakeScorerBonusAdded(seqA, seqB, wghA, wghB, prsA, prsB, score_dict, sonority_factor) ==
    LET lA == Len(seqA)
        lB == Len(seqB)
    IN  [k \in 0..lB |-> [l \in 0..lA |->
            IF k = 0 /\ l = 0 THEN 0
            ELSE IF l = 0 THEN wghB[k]
            ELSE IF k = 0 THEN wghA[l]
            ELSE LET score == score_dict[<<seqA[l], seqB[k]>>]
                 IN  IF prsA[l] = prsB[k]
                     THEN score + sonority_factor
                     ELSE score]]

MakeScorer(seqA, seqB, wghA, wghB, prsA, prsB, score_dict, sonority_factor) ==
    LET lA == Len(seqA)
        lB == Len(seqB)
    IN  [k \in 0..lB |-> [l \in 0..lA |->
            IF k = 0 /\ l = 0 THEN 0
            ELSE IF l = 0 THEN wghB[k]
            ELSE IF k = 0 THEN wghA[l]
            ELSE LET score == score_dict[<<seqA[l], seqB[k]>>]
                 IN  IF prsA[l] = prsB[k]
                     THEN score * (1 + sonority_factor)
                     ELSE score]]

(***************************************************************************)
(* The candidates of one cell.                                             *)
(***************************************************************************)
RestrictedA(arrayA, lA, arrayB, i, j) ==
    arrayB[i] < 0 /\ arrayA[j] > 0 /\ j # lA

\* faulty variant: the restriction of B tests the signs of the restriction of A
RestrictedBSwapped(arrayA, arrayB, lB, i, j) ==
    arrayB[i] < 0 /\ arrayA[j] > 0 /\ i # lB

RestrictedB(arrayA, arrayB, lB, i, j) ==
    arrayA[j] < 0 /\ arrayB[i] > 0 /\ i # lB

GapA(arrayA, lA, arrayB, S, scale, matrix, traceback, i, j) ==
    IF RestrictedA(arrayA, lA, arrayB, i, j) THEN matrix[i-1][j] - Penalty
    ELSE IF traceback[i-1][j] = 3 THEN matrix[i-1][j] + Times(S[i][0], scale)
    ELSE matrix[i-1][j] + S[i][0]

GapB(arrayA, arrayB, lB, S, scale, matrix, traceback, i, j) ==
    IF RestrictedB(arrayA, arrayB, lB, i, j) THEN matrix[i][j-1] - Penalty
    ELSE IF traceback[i][j-1] = 2 THEN matrix[i][j-1] + Times(S[0][j], scale)
    ELSE matrix[i][j-1] + S[0][j]

Match(S, matrix, i, j) == matrix[i-1][j-1] + S[i][j]

\* the row and the column of the n-th cell of the fill, n = 0 .. lA*lB - 1
RowOf(n, lA) == (n \div lA) + 1
ColOf(n, lA) == (n % lA) + 1

\* first row and first column of matrix and traceback
Border(lA, lB, row, col, tb00, tbRow, tbCol) ==
    [matrix |-> [i \in 0..lB |-> [j \in 0..lA |->
                    IF i = 0 THEN row[j] ELSE IF j = 0 THEN col[i] ELSE 0]],
     traceback |-> [i \in 0..lB |-> [j \in 0..lA |->
                    IF i = 0 /\ j = 0 THEN tb00
                    ELSE IF i = 0 THEN tbRow
                    ELSE IF j = 0 THEN tbCol ELSE 0]]]

\* faulty variant: a horizontal step does not count its gap
RECURSIVE WalkForgetsGapB(_, _, _, _, _, _)
WalkForgetsGapB(traceback, i, j, almA, almB, path) ==
    IF ~(i > 0 \/ j > 0)
    THEN [almA |-> almA, almB |-> almB, path |-> path, i |-> i, j |-> j]
    ELSE IF traceback[i][j] = 3
    THEN WalkForgetsGapB(traceback, i-1, j, [almA EXCEPT ![j] = @ + 1], almB,
                         Append(path, <<i, j, 3>>))
    ELSE IF traceback[i][j] = 1
    THEN WalkForgetsGapB(traceback, i-1, j-1, almA, almB, Append(path, <<i, j, 1>>))
    ELSE WalkForgetsGapB(traceback, i, j-1, almA, almB, Append(path, <<i, j, 2>>))

\* the traceback loop shared by _global, _overlap and _dialign
RECURSIVE Walk(_, _, _, _, _, _)
Walk(traceback, i, j, almA, almB, path) ==
    IF ~(i > 0 \/ j > 0)
    THEN [almA |-> almA, almB |-> almB, path |-> path, i |-> i, j |-> j]
    ELSE IF traceback[i][j] = 3
    THEN Walk(traceback, i-1, j, [almA EXCEPT ![j] = @ + 1], almB,
              Append(path, <<i, j, 3>>))
    ELSE IF traceback[i][j] = 1
    THEN Walk(traceback, i-1, j-1, almA, almB, Append(path, <<i, j, 1>>))
    ELSE Walk(traceback, i, j-1, almA, [almB EXCEPT ![i] = @ + 1],
              Append(path, <<i, j, 2>>))

(***************************************************************************)
(* _global                                                                 *)
(***************************************************************************)
\* faulty variant: the second comparison tests match against gapA, not gapB
GlobalChoiceAgainstGapA(gapA, match, gapB) ==
    IF gapA > match /\ gapA >= gapB THEN [v |-> gapA, t |-> 3]
    ELSE IF match >= gapA THEN [v |-> match, t |-> 1]
    ELSE [v |-> gapB, t |-> 2]

\* faulty variant: a gap in A is taken when gapA ties with match
GlobalChoiceGapOnTie(gapA, match, gapB) ==
    IF gapA >= match /\ gapA >= gapB THEN [v |-> gapA, t |-> 3]
    ELSE IF match >= gapB THEN [v |-> match, t |-> 1]
    ELSE [v |-> gapB, t |-> 2]

GlobalChoice(gapA, match, gapB) ==
    IF gapA > match /\ gapA >= gapB THEN [v |-> gapA, t |-> 3]
    ELSE IF match >= gapB THEN [v |-> match, t |-> 1]
    ELSE [v |-> gapB, t |-> 2]

GlobalCell(arrayA, lA, arrayB, lB, S, scale, st, i, j) ==
    LET c == GlobalChoice(
                GapA(arrayA, lA, arrayB, S, scale, st.matrix, st.traceback, i, j),
                Match(S, st.matrix, i, j),
                GapB(arrayA, arrayB, lB, S, scale, st.matrix, st.traceback, i, j))
    IN  [matrix |-> [st.matrix EXCEPT ![i][j] = c.v],
         traceback |-> [st.traceback EXCEPT ![i][j] = c.t]]

RECURSIVE GlobalFill(_, _, _, _, _, _, _, _)
GlobalFill(arrayA, lA, arrayB, lB, S, scale, st, n) ==
    IF n = lA * lB THEN st
    ELSE GlobalFill(arrayA, lA, arrayB, lB, S, scale,
            GlobalCell(arrayA, lA, arrayB, lB, S, scale, st,
                       RowOf(n, lA), ColOf(n, lA)),
            n + 1)

\* faulty variant: the first gap of the first row is not scaled
RECURSIVE GlobalRowFirstUnscaled(_, _, _)
GlobalRowFirstUnscaled(S, scale, j) ==
    IF j = 0 THEN 0
    ELSE IF j = 1 THEN S[0][1]
    ELSE GlobalRowFirstUnscaled(S, scale, j-1) + Times(S[0][j], scale)

RECURSIVE GlobalRow(_, _, _)
GlobalRow(S, scale, j) ==
    IF j = 0 THEN 0 ELSE GlobalRow(S, scale, j-1) + Times(S[0][j], scale)

RECURSIVE GlobalCol(_, _, _)
GlobalCol(S, scale, i) ==
    IF i = 0 THEN 0 ELSE GlobalCol(S, scale, i-1) + Times(S[i][0], scale)

Global(arrayA, lA, arrayB, lB, S, scale, almA, almB) ==
    LET row == [j \in 0..lA |-> GlobalRow(S, scale, j)]
        col == [i \in 0..lB |-> GlobalCol(S, scale, i)]
        st == GlobalFill(arrayA, lA, arrayB, lB, S, scale,
                         Border(lA, lB, row, col, 1, 2, 3), 0)
        w  == Walk(st.traceback, lB, lA, almA, almB, <<>>)
    IN  [ub |-> FALSE, sim |-> st.matrix[lB][lA], almA |-> w.almA, almB |-> w.almB,
         matrix |-> st.matrix, traceback |-> st.traceback,
         imax |-> lB, jmax |-> lA, i |-> w.i, j |-> w.j, path |-> w.path]

(***************************************************************************)
(* _local                                                                  *)
(***************************************************************************)
\* null after the two gap branches of _local: 0.0 at the top of the cell,
\* -1000000 as soon as one of the two restrictions fires
LocalNull(arrayA, lA, arrayB, lB, i, j) ==
    LET null0 == 0
        null1 == IF RestrictedA(arrayA, lA, arrayB, i, j) THEN -Penalty ELSE null0
    IN  IF RestrictedB(arrayA, arrayB, lB, i, j) THEN -Penalty ELSE null1

LocalChoice(gapA, match, gapB, null) ==
    IF gapA >= match /\ gapA >= gapB /\ gapA >= null THEN [v |-> gapA, t |-> 3]
    ELSE IF match >= gapB /\ match >= null THEN [v |-> match, t |-> 1]
    ELSE IF gapB > null THEN [v |-> gapB, t |-> 2]
    ELSE [v |-> null, t |-> 0]

\* imax and jmax are declared without a value; Unset stands for that
Unset == -1

\* faulty variant: the maximum is taken over with > instead of >=
LocalCellFirstMaximum(arrayA, lA, arrayB, lB, S, scale, st, i, j) ==
    LET c == LocalChoice(
                GapA(arrayA, lA, arrayB, S, scale, st.matrix, st.traceback, i, j),
                Match(S, st.matrix, i, j),
                GapB(arrayA, arrayB, lB, S, scale, st.matrix, st.traceback, i, j),
                LocalNull(arrayA, lA, arrayB, lB, i, j))
        isMax == c.v > st.max_score
    IN  [matrix |-> [st.matrix EXCEPT ![i][j] = c.v],
         traceback |-> [st.traceback EXCEPT ![i][j] = c.t],
         max_score |-> IF isMax THEN c.v ELSE st.max_score,
         imax |-> IF isMax THEN i ELSE st.imax,
         jmax |-> IF isMax THEN j ELSE st.jmax]

LocalCell(arrayA, lA, arrayB, lB, S, scale, st, i, j) ==
    LET c == LocalChoice(
                GapA(arrayA, lA, arrayB, S, scale, st.matrix, st.traceback, i, j),
                Match(S, st.matrix, i, j),
                GapB(arrayA, arrayB, lB, S, scale, st.matrix, st.traceback, i, j),
                LocalNull(arrayA, lA, arrayB, lB, i, j))
        isMax == c.v >= st.max_score
    IN  [matrix |-> [st.matrix EXCEPT ![i][j] = c.v],
         traceback |-> [st.traceback EXCEPT ![i][j] = c.t],
         max_score |-> IF isMax THEN c.v ELSE st.max_score,
         imax |-> IF isMax THEN i ELSE st.imax,
         jmax |-> IF isMax THEN j ELSE st.jmax]

RECURSIVE LocalFill(_, _, _, _, _, _, _, _)
LocalFill(arrayA, lA, arrayB, lB, S, scale, st, n) ==
    IF n = lA * lB THEN st
    ELSE LocalFill(arrayA, lA, arrayB, lB, S, scale,
            LocalCell(arrayA, lA, arrayB, lB, S, scale, st,
                      RowOf(n, lA), ColOf(n, lA)),
            n + 1)

\* faulty variant: the marking loop starts one position late
MarkLate(alm, lo, hi) ==
    [k \in DOMAIN alm |-> IF lo + 1 <= k /\ k < hi THEN -1 ELSE alm[k]]

\* alm[k] = -1 for lo <= k < hi
Mark(alm, lo, hi) ==
    [k \in DOMAIN alm |-> IF lo <= k /\ k < hi THEN -1 ELSE alm[k]]

\* faulty variant: a gap step in A is not counted in almA
RECURSIVE LocalWalkForgetsGapA(_, _, _, _, _, _)
LocalWalkForgetsGapA(traceback, i, j, almA, almB, path) ==
    IF traceback[i][j] = 0
    THEN [almA |-> almA, almB |-> almB, path |-> path, i |-> i, j |-> j]
    ELSE IF traceback[i][j] = 3
    THEN LocalWalkForgetsGapA(traceback, i-1, j, almA, almB,
                              Append(path, <<i, j, 3>>))
    ELSE IF traceback[i][j] = 1
    THEN LocalWalkForgetsGapA(traceback, i-1, j-1, almA, almB,
                              Append(path, <<i, j, 1>>))
    ELSE LocalWalkForgetsGapA(traceback, i, j-1, almA,
                              [almB EXCEPT ![i] = @ + 1],
                              Append(path, <<i, j, 2>>))

RECURSIVE LocalWalk(_, _, _, _, _, _)
LocalWalk(traceback, i, j, almA, almB, path) ==
    IF traceback[i][j] = 0
    THEN [almA |-> almA, almB |-> almB, path |-> path, i |-> i, j |-> j]
    ELSE IF traceback[i][j] = 3
    THEN LocalWalk(traceback, i-1, j, [almA EXCEPT ![j] = @ + 1], almB,
                   Append(path, <<i, j, 3>>))
    ELSE IF traceback[i][j] = 1
    THEN LocalWalk(traceback, i-1, j-1, almA, almB, Append(path, <<i, j, 1>>))
    ELSE LocalWalk(traceback, i, j-1, almA, [almB EXCEPT ![i] = @ + 1],
                   Append(path, <<i, j, 2>>))

Local(arrayA, lA, arrayB, lB, S, scale, almA, almB) ==
    LET b  == Border(lA, lB, Zeros(lA), Zeros(lB), 0, 0, 0)
        st == LocalFill(arrayA, lA, arrayB, lB, S, scale,
                        [matrix |-> b.matrix, traceback |-> b.traceback,
                         max_score |-> 0, imax |-> Unset, jmax |-> Unset], 0)
    IN  IF st.imax = Unset
        THEN \* matrix[imax][jmax] with imax, jmax never assigned
             [ub |-> TRUE, matrix |-> st.matrix, traceback |-> st.traceback]
        ELSE LET w == LocalWalk(st.traceback, st.imax, st.jmax,
                                Mark(almA, st.jmax, lA), Mark(almB, st.imax, lB),
                                <<>>)
             IN  [ub |-> FALSE, sim |-> st.matrix[st.imax][st.jmax],
                  almA |-> Mark(w.almA, 0, w.j), almB |-> Mark(w.almB, 0, w.i),
                  matrix |-> st.matrix, traceback |-> st.traceback,
                  imax |-> st.imax, jmax |-> st.jmax,
                  i |-> w.i, j |-> w.j, path |-> w.path]

(***************************************************************************)
(* _overlap                                                                *)
(***************************************************************************)
\* faulty variant: a gap in the last column costs its weight
OverlapGapACharged(arrayA, lA, arrayB, S, scale, matrix, traceback, i, j) ==
    IF RestrictedA(arrayA, lA, arrayB, i, j) THEN matrix[i-1][j] - Penalty
    ELSE IF traceback[i-1][j] = 3 THEN matrix[i-1][j] + Times(S[i][0], scale)
    ELSE matrix[i-1][j] + S[i][0]

OverlapGapA(arrayA, lA, arrayB, S, scale, matrix, traceback, i, j) ==
    IF RestrictedA(arrayA, lA, arrayB, i, j) THEN matrix[i-1][j] - Penalty
    ELSE IF j = lA THEN matrix[i-1][j]
    ELSE IF traceback[i-1][j] = 3 THEN matrix[i-1][j] + Times(S[i][0], scale)
    ELSE matrix[i-1][j] + S[i][0]

OverlapGapB(arrayA, arrayB, lB, S, scale, matrix, traceback, i, j) ==
    IF RestrictedB(arrayA, arrayB, lB, i, j) THEN matrix[i][j-1] - Penalty
    ELSE IF i = lB THEN matrix[i][j-1]
    ELSE IF traceback[i][j-1] = 2 THEN matrix[i][j-1] + Times(S[0][j], scale)
    ELSE matrix[i][j-1] + S[0][j]

OverlapCell(arrayA, lA, arrayB, lB, S, scale, st, i, j) ==
    LET c == GlobalChoice(
                OverlapGapA(arrayA, lA, arrayB, S, scale, st.matrix, st.traceback, i, j),
                Match(S, st.matrix, i, j),
                OverlapGapB(arrayA, arrayB, lB, S, scale, st.matrix, st.traceback, i, j))
    IN  [matrix |-> [st.matrix EXCEPT ![i][j] = c.v],
         traceback |-> [st.traceback EXCEPT ![i][j] = c.t]]

RECURSIVE OverlapFill(_, _, _, _, _, _, _, _)
OverlapFill(arrayA, lA, arrayB, lB, S, scale, st, n) ==
    IF n = lA * lB THEN st
    ELSE OverlapFill(arrayA, lA, arrayB, lB, S, scale,
            OverlapCell(arrayA, lA, arrayB, lB, S, scale, st,
                        RowOf(n, lA), ColOf(n, lA)),
            n + 1)

Overlap(arrayA, lA, arrayB, lB, S, scale, almA, almB) ==
    LET st == OverlapFill(arrayA, lA, arrayB, lB, S, scale,
                          Border(lA, lB, Zeros(lA), Zeros(lB), 1, 2, 3), 0)
        w  == Walk(st.traceback, lB, lA, almA, almB, <<>>)
    IN  [ub |-> FALSE, sim |-> st.matrix[lB][lA], almA |-> w.almA, almB |-> w.almB,
         matrix |-> st.matrix, traceback |-> st.traceback,
         imax |-> lB, jmax |-> lA, i |-> w.i, j |-> w.j, path |-> w.path]

(***************************************************************************)
(* _repeats                                                                *)
(***************************************************************************)
\* null of _repeats: every branch of the gapA block assigns it, and every
\* branch of the gapB block assigns it again
RepeatsNull(arrayA, lA, arrayB, lB, traceback, i, j) ==
    LET null1 == IF RestrictedA(arrayA, lA, arrayB, i, j) THEN -Penalty
                 ELSE IF traceback[i-1][j] = 3 THEN 0 ELSE 0
    IN  IF RestrictedB(arrayA, arrayB, lB, i, j) THEN -Penalty
        ELSE IF traceback[i][j-1] = 2 THEN 0 ELSE 0

RepeatsChoice(gapA, match, gapB, null) ==
    IF gapA >= match /\ gapA >= gapB /\ gapA >= null THEN [v |-> gapA, t |-> 3]
    ELSE IF match > gapB /\ match > null THEN [v |-> match, t |-> 1]
    ELSE IF gapB > null THEN [v |-> gapB, t |-> 2]
    ELSE [v |-> null, t |-> 0]

RepeatsCell(arrayA, lA, arrayB, lB, S, scale, st, i, j) ==
    LET c == RepeatsChoice(
                GapA(arrayA, lA, arrayB, S, scale, st.matrix, st.traceback, i, j),
                Match(S, st.matrix, i, j),
                GapB(arrayA, arrayB, lB, S, scale, st.matrix, st.traceback, i, j),
                RepeatsNull(arrayA, lA, arrayB, lB, st.traceback, i, j))
    IN  [matrix |-> [st.matrix EXCEPT ![i][j] = c.v],
         traceback |-> [st.traceback EXCEPT ![i][j] = c.t]]

RECURSIVE RepeatsFill(_, _, _, _, _, _, _, _)
RepeatsFill(arrayA, lA, arrayB, lB, S, scale, st, n) ==
    IF n = lA * lB THEN st
    ELSE RepeatsFill(arrayA, lA, arrayB, lB, S, scale,
            RepeatsCell(arrayA, lA, arrayB, lB, S, scale, st,
                        RowOf(n, lA), ColOf(n, lA)),
            n + 1)

\* The two nested scan loops at a 0 cell (i, j), j >= 1.  The statement
\* "if(traceback[l][k] == 1);" is empty, so the inner loop breaks at its
\* first pass, l = i-1, and then the outer one at k = j-1; with i = 0 the
\* inner loop never runs and the outer one runs k down to -1.
RepeatsScan(i, j) ==
    [k |-> IF i - 1 >= 0 THEN j - 1 ELSE -1, l |-> i - 1]

RECURSIVE AddN(_, _, _)
AddN(alm, k, n) == IF n <= 0 THEN alm ELSE AddN([alm EXCEPT ![k] = @ + 1], k, n - 1)

RECURSIVE RepeatsWalk(_, _, _, _, _, _, _, _)
RepeatsWalk(matrix, traceback, i, j, almA, almB, sim, path) ==
    IF ~(i > 0 \/ j > 0)
    THEN [ub |-> FALSE, almA |-> almA, almB |-> almB, sim |-> sim,
          path |-> path, i |-> i, j |-> j]
    ELSE IF traceback[i][j] = 3
    THEN RepeatsWalk(matrix, traceback, i-1, j, [almA EXCEPT ![j] = @ + 1], almB,
                     sim, Append(path, <<i, j, 3>>))
    ELSE IF traceback[i][j] = 1
    THEN RepeatsWalk(matrix, traceback, i-1, j-1, almA, almB, sim,
                     Append(path, <<i, j, 1>>))
    ELSE IF traceback[i][j] = 2
    THEN RepeatsWalk(matrix, traceback, i, j-1, almA, [almB EXCEPT ![i] = @ + 1],
                     sim, Append(path, <<i, j, 2>>))
    ELSE IF i = 0 \/ j = 0
    THEN \* l is read without a value (j = 0), or matrix[-1][-1] is read (i = 0)
         [ub |-> TRUE, almA |-> almA, almB |-> almB, sim |-> sim,
          path |-> Append(path, <<i, j, 0>>), i |-> i, j |-> j]
    ELSE LET s == RepeatsScan(i, j)
             skipA == j - s.k
             skipB == i - s.l
             skip  == (j - s.k) + (i - s.l)
         IN  RepeatsWalk(matrix, traceback, s.l, s.k,
                         AddN(almA, j - skipA, skip - skipA),
                         AddN(almB, i, skip - skipB),
                         sim + matrix[s.l][s.k],
                         Append(path, <<i, j, 0>>))

Repeats(arrayA, lA, arrayB, lB, S, scale, almA, almB) ==
    LET st == RepeatsFill(arrayA, lA, arrayB, lB, S, scale,
                          Border(lA, lB, Zeros(lA), Zeros(lB), 1, 2, 3), 0)
        w  == RepeatsWalk(st.matrix, st.traceback, lB, lA, almA, almB,
                          st.matrix[lB][lA], <<>>)
    IN  [ub |-> w.ub, sim |-> w.sim, almA |-> w.almA, almB |-> w.almB,
         matrix |-> st.matrix, traceback |-> st.traceback,
         imax |-> lB, jmax |-> lA, i |-> w.i, j |-> w.j, path |-> w.path]

(***************************************************************************)
(* _dialign                                                                *)
(***************************************************************************)
\* new_score of the diagonal of length k+1 that ends in (i, j)
\* faulty variant: the sum leaves out the cell (i, j) itself
RECURSIVE DiagonalSumFromOne(_, _, _, _)
DiagonalSumFromOne(S, i, j, l) ==
    IF l < 1 THEN 0 ELSE S[i-l][j-l] + DiagonalSumFromOne(S, i, j, l - 1)

RECURSIVE DiagonalSum(_, _, _, _)
DiagonalSum(S, i, j, l) ==
    IF l < 0 THEN 0 ELSE S[i-l][j-l] + DiagonalSum(S, i, j, l - 1)

\* faulty variant: a diagonal that scores the same replaces the running best
RECURSIVE BestDiagonalOnTie(_, _, _, _, _, _, _)
BestDiagonalOnTie(S, matrix, i, j, k, minimum, old) ==
    IF k >= minimum THEN old
    ELSE LET new_score == matrix[i-k-1][j-k-1] + DiagonalSum(S, i, j, k)
             new_length == k + 1
         IN  BestDiagonalOnTie(S, matrix, i, j, k + 1, minimum,
                IF new_score >= old.score
                THEN [score |-> new_score, length |-> new_length]
                ELSE old)

RECURSIVE BestDiagonal(_, _, _, _, _, _, _)
BestDiagonal(S, matrix, i, j, k, minimum, old) ==
    IF k >= minimum THEN old
    ELSE LET new_score == matrix[i-k-1][j-k-1] + DiagonalSum(S, i, j, k)
             new_length == k + 1
         IN  BestDiagonal(S, matrix, i, j, k + 1, minimum,
                IF new_score > old.score
                THEN [score |-> new_score, length |-> new_length]
                ELSE old)

DialignChoice(scoreA, old_score, scoreB) ==
    IF scoreA >= old_score /\ scoreA > scoreB THEN [v |-> scoreA, t |-> 3]
    ELSE IF old_score > scoreB THEN [v |-> old_score, t |-> 1]
    ELSE [v |-> scoreB, t |-> 2]

DialignCell(arrayA, lA, arrayB, lB, S, scale, st, i, j) ==
    LET minimum == IF i < j THEN i ELSE j
        old == BestDiagonal(S, st.matrix, i, j, 0, minimum,
                            [score |-> 0, length |-> 1])
        scoreA == IF RestrictedA(arrayA, lA, arrayB, i, j)
                  THEN st.matrix[i-1][j] - Penalty ELSE st.matrix[i-1][j]
        scoreB == IF RestrictedB(arrayA, arrayB, lB, i, j)
                  THEN st.matrix[i][j-1] - Penalty ELSE st.matrix[i][j-1]
        c == DialignChoice(scoreA, old.score, scoreB)
    IN  [matrix |-> [st.matrix EXCEPT ![i][j] = c.v],
         traceback |->
            IF c.t = 1
            THEN [x \in DOMAIN st.traceback |-> [y \in DOMAIN st.traceback[x] |->
                    IF i - x = j - y /\ 0 <= i - x /\ i - x < old.length
                    THEN 1 ELSE st.traceback[x][y]]]
            ELSE [st.traceback EXCEPT ![i][j] = c.t],
         lengths |-> [st.lengths EXCEPT ![i][j] = old.length]]

RECURSIVE DialignFill(_, _, _, _, _, _, _, _)
DialignFill(arrayA, lA, arrayB, lB, S, scale, st, n) ==
    IF n = lA * lB THEN st
    ELSE DialignFill(arrayA, lA, arrayB, lB, S, scale,
            DialignCell(arrayA, lA, arrayB, lB, S, scale, st,
                        RowOf(n, lA), ColOf(n, lA)),
            n + 1)

Dialign(arrayA, lA, arrayB, lB, S, scale, almA, almB) ==
    LET b  == Border(lA, lB, Zeros(lA), Zeros(lB), 1, 2, 3)
        st == DialignFill(arrayA, lA, arrayB, lB, S, scale,
                          [matrix |-> b.matrix, traceback |-> b.traceback,
                           lengths |-> [i \in 0..lB |-> [j \in 0..lA |-> 0]]], 0)
        w  == Walk(st.traceback, lB, lA, almA, almB, <<>>)
    IN  [ub |-> FALSE, sim |-> st.matrix[lB][lA], almA |-> w.almA, almB |-> w.almB,
         matrix |-> st.matrix, traceback |-> st.traceback, lengths |-> st.lengths,
         imax |-> lB, jmax |-> lA, i |-> w.i, j |-> w.j, path |-> w.path]

(***************************************************************************)
(* The call through the function pointer align, and the assembly.          *)
(***************************************************************************)
Kernel(mode, arrayA, lA, arrayB, lB, S, scale, almA, almB) ==
    CASE mode = "global"  -> Global(arrayA, lA, arrayB, lB, S, scale, almA, almB)
      [] mode = "local"   -> Local(arrayA, lA, arrayB, lB, S, scale, almA, almB)
      [] mode = "repeats" -> Repeats(arrayA, lA, arrayB, lB, S, scale, almA, almB)
      [] mode = "overlap" -> Overlap(arrayA, lA, arrayB, lB, S, scale, almA, almB)
      [] mode = "dialign" -> Dialign(arrayA, lA, arrayB, lB, S, scale, almA, almB)

\* n copies of "-" 
Gaps(n) == [x \in 1..n |-> "-"]

\* faulty variant: the gaps overwrite the entry at k instead of moving it
InsertGapsOver(out, k, n) ==
    IF k >= Len(out) THEN out \o Gaps(n)
    ELSE SubSeq(out, 1, k) \o Gaps(n) \o SubSeq(out, k + 2, Len(out))

\* list.insert(k, "-"), n times, on a 0-based list
InsertGaps(out, k, n) ==
    IF k >= Len(out) THEN out \o Gaps(n)
    ELSE SubSeq(out, 1, k) \o Gaps(n) \o SubSeq(out, k + 1, Len(out))

\* faulty variant: a marked position is left as it is
RECURSIVE RetrieveWithoutMarks(_, _, _)
RetrieveWithoutMarks(out, alm, k) ==
    IF k < 0 THEN [raised |-> FALSE, out |-> out]
    ELSE IF alm[k] > 0
    THEN RetrieveWithoutMarks(InsertGaps(out, k, alm[k]), alm, k - 1)
    ELSE RetrieveWithoutMarks(out, alm, k - 1)

\* the loop "for(k=l;k>=0;k--)" over one gap-count vector; raised when
\* out[k] = "*" is past the end of the list (IndexError)
RECURSIVE Retrieve(_, _, _)
Retrieve(out, alm, k) ==
    IF k < 0 THEN [raised |-> FALSE, out |-> out]
    ELSE IF alm[k] > 0 THEN Retrieve(InsertGaps(out, k, alm[k]), alm, k - 1)
    ELSE IF alm[k] < 0
    THEN IF k >= Len(out) THEN [raised |-> TRUE, out |-> out]
         ELSE Retrieve([out EXCEPT ![k + 1] = "*"], alm, k - 1)
    ELSE Retrieve(out, alm, k - 1)

(***************************************************************************)
(* align_pairwise                                                          *)
(***************************************************************************)
\* The if/else chain over mode that assigns the function pointer align.  It
\* has no final else: with any other mode align keeps no value.
Dispatch(mode) == IF mode \in Modes THEN mode ELSE "indeterminate"

\* What a call through align runs.  A pointer without a value may hold the
\* address of any kernel, or of nothing that can be called.
CallTargets(align) ==
    IF align = "indeterminate" THEN Modes \cup {"crash"} ELSE {align}

AlignTargets(mode) == CallTargets(Dispatch(mode))

\* the arguments of one pair
Operands(a, seqA, seqB, wghA, wghB, resA, resB, prsA, prsB) ==
    [mode |-> a.mode,
     seqA |-> seqA, seqB |-> seqB, wghA |-> wghA, wghB |-> wghB,
     resA |-> resA, resB |-> resB, prsA |-> prsA, prsB |-> prsB,
     score_dict |-> a.score_dict, scale |-> a.scale,
     sonority_factor |-> a.sonority_factor]

\* the scorer of one pair, keyed (seqA[l-1], seqB[k-1])
Scorer(a) ==
    MakeScorer(a.seqA, a.seqB, a.wghA, a.wghB, a.prsA, a.prsB, a.score_dict,
               a.sonority_factor)

\* one pair through kernel and assembly; S is the scorer the driver has
\* built, target is what align runs
Assembled(S, k, outA, outB) ==
    IF outA.raised \/ outB.raised
    THEN [outcome |-> "raised", scorer |-> S, kern |-> k]
    ELSE [outcome |-> "returned", scorer |-> S, kern |-> k,
          outA |-> outA.out, outB |-> outB.out, sim |-> k.sim]

\* the two loops that turn the gap counts of the kernel into the outputs
Assemble(a, S, k) ==
    IF k.ub THEN [outcome |-> "undefined", scorer |-> S, kern |-> k]
    ELSE Assembled(S, k, Retrieve(a.seqA, k.almA, Len(a.seqA)),
                         Retrieve(a.seqB, k.almB, Len(a.seqB)))

AlignPair(a, S, target) ==
    Assemble(a, S, Kernel(target, a.resA, Len(a.seqA), a.resB, Len(a.seqB),
                          S, a.scale, Zeros(Len(a.seqA)), Zeros(Len(a.seqB))))

AlignPairwise ==
    /\ op = "align_pairwise"
    /\ pc = "called"
    /\ \E target \in AlignTargets(args.mode) :
          IF target = "crash"
          THEN /\ pc' = "crashed"
               /\ UNCHANGED <<scorer, kern, ret>>
          ELSE \E r \in {AlignPair(args, Scorer(args), target)} :
                   /\ pc' = r.outcome
                   /\ scorer' = r.scorer
                   /\ kern' = [ran |-> target] @@ r.kern
                   /\ ret' = IF r.outcome = "returned"
                             THEN [outA |-> r.outA, outB |-> r.outB, sim |-> r.sim]
                             ELSE <<>>
    /\ UNCHANGED <<op, args, loc>>

(***************************************************************************)
(* align_sequences_pairwise: every pair i < j of a list of sequences.      *)
(* One step is one pass of the inner loop body.                            *)
(***************************************************************************)
\* faulty variant: the key is (seqA[l-1], seqB[k-1]), as in align_pairwise
MakeScorerAllPairsAsPairwise(seqA, seqB, wghA, wghB, prsA, prsB, score_dict, sonority_factor) ==
    LET lA == Len(seqA)
        lB == Len(seqB)
    IN  [k \in 0..lB |-> [l \in 0..lA |->
            IF k = 0 /\ l = 0 THEN 0
            ELSE IF l = 0 THEN wghB[k]
            ELSE IF k = 0 THEN wghA[l]
            ELSE LET score == score_dict[<<seqA[l], seqB[k]>>]
                 IN  IF prsA[l] = prsB[k]
                     THEN score * (1 + sonority_factor)
                     ELSE score]]

\* the scorer of this driver: the key of score_dict is (seqB[k-1], seqA[l-1])
MakeScorerAllPairs(seqA, seqB, wghA, wghB, prsA, prsB, score_dict, sonority_factor) ==
    LET lA == Len(seqA)
        lB == Len(seqB)
    IN  [k \in 0..lB |-> [l \in 0..lA |->
            IF k = 0 /\ l = 0 THEN 0
            ELSE IF l = 0 THEN wghB[k]
            ELSE IF k = 0 THEN wghA[l]
            ELSE LET score == score_dict[<<seqB[k], seqA[l]>>]
                 IN  IF prsA[l] = prsB[k]
                     THEN score * (1 + sonority_factor)
                     ELSE score]]

\* the next (i, j) with i < j after (i, j), in the order of the two loops
AfterPair(i, j, lS) ==
    IF j + 1 < lS THEN [i |-> i, j |-> j + 1] ELSE [i |-> i + 1, j |-> i + 2]

\* the pair of entries A and B of the lists
AllPairsOperands(a, A, B) ==
    Operands(a, a.seqs[A], a.seqs[B], a.weights[A], a.weights[B],
             a.restrictions[A], a.restrictions[B],
             a.prosodics[A], a.prosodics[B])

ScorerAllPairs(a) ==
    MakeScorerAllPairs(a.seqA, a.seqB, a.wghA, a.wghB, a.prsA, a.prsB,
                       a.score_dict, a.sonority_factor)

AllPairsLocals(mode) ==
    [align |-> Dispatch(mode), i |-> 0, j |-> 1, alignments |-> <<>>]

AlignSequencesPairwise ==
    /\ op = "align_sequences_pairwise"
    /\ pc = "called"
    /\ loc.j < Len(args.seqs)
    /\ \E target \in CallTargets(loc.align) :
          IF target = "crash"
          THEN /\ pc' = "crashed"
               /\ UNCHANGED <<loc, scorer, kern>>
          ELSE \E a \in {AllPairsOperands(args, loc.i + 1, loc.j + 1)} :
               \E r \in {AlignPair(a, ScorerAllPairs(a), target)} :
               \E n \in {AfterPair(loc.i, loc.j, Len(args.seqs))} :
                   /\ scorer' = r.scorer
                   /\ kern' = [ran |-> target] @@ r.kern
                   /\ IF r.outcome = "returned"
                      THEN /\ pc' = pc
                           /\ loc' = [loc EXCEPT
                                  !.align = target, !.i = n.i, !.j = n.j,
                                  !.alignments = Append(@,
                                      [outA |-> r.outA, outB |-> r.outB,
                                       sim |-> r.sim])]
                      ELSE /\ pc' = r.outcome
                           /\ loc' = [loc EXCEPT !.align = target]
    /\ UNCHANGED <<op, args, ret>>

AlignSequencesPairwiseReturn ==
    /\ op = "align_sequences_pairwise"
    /\ pc = "called"
    /\ loc.j >= Len(args.seqs)
    /\ pc' = "returned"
    /\ ret' = loc.alignments
    /\ UNCHANGED <<op, args, loc, scorer, kern>>

(***************************************************************************)
(* align_sequence_pairs: a list of pairs of sequences.                     *)
(***************************************************************************)
PairsLocals(mode) ==
    [align |-> Dispatch(mode), i |-> 0, alignments |-> <<>>]

\* the pair the pair drivers align: the first sequence of entry A of the
\* lists with the second sequence of entry B
PairOperands(a, A, B) ==
    Operands(a, a.seqs[A][1], a.seqs[B][2],
             a.weights[A][1], a.weights[B][2],
             a.restrictions[A][1], a.restrictions[B][2],
             a.prosodics[A][1], a.prosodics[B][2])

AlignSequencePairs ==
    /\ op = "align_sequence_pairs"
    /\ pc = "called"
    /\ loc.i < Len(args.seqs)
    /\ \E target \in CallTargets(loc.align) :
          IF target = "crash"
          THEN /\ pc' = "crashed"
               /\ UNCHANGED <<loc, scorer, kern>>
          ELSE \E a \in {PairOperands(args, loc.i + 1, loc.i + 1)} :
               \E r \in {AlignPair(a, Scorer(a), target)} :
                   /\ scorer' = r.scorer
                   /\ kern' = [ran |-> target] @@ r.kern
                   /\ IF r.outcome = "returned"
                      THEN /\ pc' = pc
                           /\ loc' = [loc EXCEPT
                                  !.align = target, !.i = @ + 1,
                                  !.alignments = Append(@,
                                      [outA |-> r.outA, outB |-> r.outB,
                                       sim |-> r.sim])]
                      ELSE /\ pc' = r.outcome
                           /\ loc' = [loc EXCEPT !.align = target]
    /\ UNCHANGED <<op, args, ret>>

AlignSequencePairsReturn ==
    /\ op = "align_sequence_pairs"
    /\ pc = "called"
    /\ loc.i >= Len(args.seqs)
    /\ pc' = "returned"
    /\ ret' = loc.alignments
    /\ UNCHANGED <<op, args, loc, scorer, kern>>

(***************************************************************************)
(* random_align_sequence_pairs.  corrs counts in units of 1.0 / runs.      *)
(* loc.at is "run" at the head of the loop over m and "pair" inside the    *)
(* loop over i.                                                            *)
(***************************************************************************)
\* the orders std::random_shuffle can leave v in
Shuffles(lS) ==
    {v \in [1..lS -> 0..(lS - 1)] : \A x, y \in 1..lS : v[x] = v[y] => x = y}

RandomLocals(mode, lS) ==
    [align |-> Dispatch(mode), m |-> 0, i |-> 0, at |-> "run",
     v |-> [x \in 1..lS |-> x - 1], alm_pairs |-> <<>>, corrs |-> <<>>]

\* faulty variant: the lookup never finds the key
HasKeyNever(dict, key) == FALSE

HasKey(dict, key) == key \in DOMAIN dict

\* the loop over n that counts the pairs (outA[n], outB[n]); raised when
\* outB[n] is past the end of the list (IndexError)
RECURSIVE Count(_, _, _, _)
Count(corrs, outA, outB, n) ==
    IF n > Len(outA) THEN [raised |-> FALSE, corrs |-> corrs]
    ELSE IF n > Len(outB) THEN [raised |-> TRUE, corrs |-> corrs]
    ELSE LET tmp_pair == <<outA[n], outB[n]>>
         IN  Count(IF HasKey(corrs, tmp_pair)
                   THEN [corrs EXCEPT ![tmp_pair] = @ + 1]
                   ELSE corrs @@ (tmp_pair :> 1),
                   outA, outB, n + 1)

Correspondences(mode, corrs, outA, outB) ==
    IF mode # "local" THEN Count(corrs, outA, outB, 1)
    ELSE Count(corrs, SelectSeq(outA, LAMBDA x : x # "*"),
                      SelectSeq(outB, LAMBDA x : x # "*"), 1)

RandomShuffle ==
    /\ op = "random_align_sequence_pairs"
    /\ pc = "called"
    /\ loc.at = "run"
    /\ loc.m < args.runs
    /\ \E v \in Shuffles(Len(args.seqs)) :
          loc' = IF Len(args.seqs) = 0
                 THEN [loc EXCEPT !.v = v, !.m = @ + 1]
                 ELSE [loc EXCEPT !.v = v, !.i = 0, !.at = "pair"]
    /\ UNCHANGED <<op, pc, args, scorer, kern, ret>>

\* the rest of one pass of the loop over i, once outA and outB are known
RandomCount(align, alm_pairs, outA, outB) ==
    \E c \in {Correspondences(args.mode, loc.corrs, outA, outB)} :
    \E last \in {loc.i + 1 >= Len(args.seqs)} :
        IF c.raised
        THEN /\ pc' = "raised"
             /\ loc' = [loc EXCEPT !.align = align, !.alm_pairs = alm_pairs]
        ELSE /\ pc' = pc
             /\ loc' = [loc EXCEPT
                    !.align = align, !.alm_pairs = alm_pairs,
                    !.corrs = c.corrs,
                    !.i = IF last THEN @ ELSE @ + 1,
                    !.m = IF last THEN @ + 1 ELSE @,
                    !.at = IF last THEN "run" ELSE "pair"]

RandomAlignSequencePairs ==
    /\ op = "random_align_sequence_pairs"
    /\ pc = "called"
    /\ loc.at = "pair"
    /\ \E key \in {<<loc.v[loc.i + 1], loc.i>>} :
           IF ~HasKey(loc.alm_pairs, key)
           THEN \E target \in CallTargets(loc.align) :
                  IF target = "crash"
                  THEN /\ pc' = "crashed"
                       /\ UNCHANGED <<loc, scorer, kern>>
                  ELSE \E a \in {PairOperands(args, key[1] + 1, key[2] + 1)} :
                       \E r \in {AlignPair(a, Scorer(a), target)} :
                           /\ scorer' = r.scorer
                           /\ kern' = [ran |-> target] @@ r.kern
                           /\ IF r.outcome = "returned"
                              THEN RandomCount(target,
                                       loc.alm_pairs @@ (key :> <<r.outA, r.outB>>),
                                       r.outA, r.outB)
                              ELSE /\ pc' = r.outcome
                                   /\ loc' = [loc EXCEPT !.align = target]
           ELSE /\ RandomCount(loc.align, loc.alm_pairs,
                               loc.alm_pairs[key][1], loc.alm_pairs[key][2])
                /\ UNCHANGED <<scorer, kern>>
    /\ UNCHANGED <<op, args, ret>>

RandomAlignSequencePairsReturn ==
    /\ op = "random_align_sequence_pairs"
    /\ pc = "called"
    /\ loc.at = "run"
    /\ loc.m >= args.runs
    /\ pc' = "returned"
    /\ ret' = loc.corrs
    /\ UNCHANGED <<op, args, loc, scorer, kern>>

(***************************************************************************)
(* Inputs.  A site is one position of a sequence with its symbol, its gap  *)
(* weight, its restriction and its prosodic character.                     *)
(***************************************************************************)
Site(sym, wgh, res, prs) == [sym |-> sym, wgh |-> wgh, res |-> res, prs |-> prs]

SitesOf(sites, n) == [1..n -> sites]

SequencesUpTo(sites, max) == UNION {SitesOf(sites, n) : n \in 1..max}

Sequences(sites) == SequencesUpTo(sites, MaxLen)

Field(x, f) == [k \in 1..Len(x) |-> x[k][f]]

PairwiseArgs(mode, a, b, score_dict, scale, sonority_factor) ==
    [mode |-> mode,
     seqA |-> Field(a, "sym"), seqB |-> Field(b, "sym"),
     wghA |-> Field(a, "wgh"), wghB |-> Field(b, "wgh"),
     resA |-> Field(a, "res"), resB |-> Field(b, "res"),
     prsA |-> Field(a, "prs"), prsB |-> Field(b, "prs"),
     score_dict |-> score_dict, scale |-> scale,
     sonority_factor |-> sonority_factor]

Symbols == {"a", "b"}

\* sigma(s, t) = same if s = t, other otherwise
Identity(same, other) ==
    [p \in Symbols \X Symbols |-> IF p[1] = p[2] THEN same ELSE other]

\* vowels and consonants: the prosodic character of a symbol
Prs(sym) == IF sym = "a" THEN "V" ELSE "C"

ASites ==
    { Site("a", -2, 0, "V"), Site("b", -2, 1, "C"), Site("a", 0, -1, "V"),
      Site("b", 2, -1, "C") }

BSites ==
    { Site("a", -2, -1, "V"), Site("b", 0, 1, "C"), Site("a", -2, 0, "V") }

InitAlign ==
    /\ op = "align_pairwise"
    /\ pc = "called"
    /\ \E mode \in Modes, a \in Sequences(ASites), b \in Sequences(BSites),
          scale \in {1, 2} :
          args = PairwiseArgs(mode, a, b, Identity(2, -2), scale, 0)
    /\ loc = <<>>
    /\ scorer = <<>>
    /\ kern = <<>>
    /\ ret = <<>>

NextAlign == AlignPairwise

SpecAlign == InitAlign /\ [][NextAlign]_vars

(***************************************************************************)
(* Reading the returned alignment.                                         *)
(***************************************************************************)
Returned == op = "align_pairwise" /\ pc = "returned"

Without(out, dropped) == SelectSeq(out, LAMBDA x : x \notin dropped)

\* the number of entries of out[1..n] that are not "-": for an entry that is
\* not a gap, the position of the input it stands for; for a gap, the
\* position of the input after which it sits (0: before the first one)
RECURSIVE Origin(_, _)
Origin(out, n) ==
    IF n = 0 THEN 0
    ELSE Origin(out, n - 1) + (IF out[n] = "-" THEN 0 ELSE 1)

\* the entries of out that are not "*", each with its origin
Entries(out) ==
    LET all == [n \in 1..Len(out) |-> [sym |-> out[n], at |-> Origin(out, n)]]
    IN  SelectSeq(all, LAMBDA e : e.sym # "*")

\* the columns of the returned alignment; in local mode the entries that are
\* not "*" are paired by position, as random_align_sequence_pairs pairs them
Columns(r) ==
    LET ea == Entries(r.outA)
        eb == Entries(r.outB)
        n  == IF Len(ea) < Len(eb) THEN Len(ea) ELSE Len(eb)
    IN  [c \in 1..n |-> [a |-> ea[c], b |-> eb[c]]]

(***************************************************************************)
(* C1.  The two returned sequences have equal length.                      *)
(***************************************************************************)
\* C1 as stated: in every mode, for every valid input, |outA| = |outB|.
C1_LengthAgreementAllModes ==
    Returned => Len(ret.outA) = Len(ret.outB)

\* C1, amended: in global, overlap, repeats and dialign mode |outA| = |outB|
\* (local mode overwrites the positions outside the local alignment with "*"
\* and pads neither side).
C1_LengthAgreement ==
    (Returned /\ args.mode # "local") => Len(ret.outA) = Len(ret.outB)

C1_Witness ==
    /\ Returned
    /\ args.mode = "repeats"
    /\ Len(args.seqA) # Len(args.seqB)
    /\ \E n \in 1..Len(ret.outA) : ret.outA[n] = "-"
    /\ \E n \in 1..Len(ret.outB) : ret.outB[n] = "-"

(***************************************************************************)
(* C2.  Dropping "-" and "*" from an output gives back its input.          *)
(***************************************************************************)
\* C2 as stated: in every mode, outA without "-" and "*" is A, and outB
\* without them is B.
C2_SymbolPreservationAllModes ==
    Returned => /\ Without(ret.outA, {"-", "*"}) = args.seqA
                /\ Without(ret.outB, {"-", "*"}) = args.seqB

\* C2, amended: in global, overlap, repeats and dialign mode, outA without
\* "-" and "*" is A, and outB without them is B (in local mode "*" replaces
\* the input symbols outside the local alignment).
C2_SymbolPreservation ==
    (Returned /\ args.mode # "local") =>
        /\ Without(ret.outA, {"-", "*"}) = args.seqA
        /\ Without(ret.outB, {"-", "*"}) = args.seqB

C2_Witness ==
    /\ Returned
    /\ args.mode = "dialign"
    /\ Len(ret.outA) > Len(args.seqA)
    /\ Len(ret.outB) > Len(args.seqB)
    /\ Len(args.seqA) = MaxLen

(***************************************************************************)
(* C3.  Restrictions.                                                      *)
(***************************************************************************)
\* C3 as stated: whenever resA[j] < 0 and resB[i] > 0 for some i that is not
\* the last position of B, no column has A[j] opposite a "-" of outB, gaps
\* at the very start included; and the same with A and B exchanged.
C3_RestrictionHonored ==
    Returned =>
        \A c \in DOMAIN Columns(ret) :
            LET x == Columns(ret)[c]
            IN  /\ (x.a.sym # "-" /\ x.b.sym = "-") =>
                      ~ /\ args.resA[x.a.at] < 0
                        /\ \E i \in 1..Len(args.seqB) :
                              args.resB[i] > 0 /\ i # Len(args.seqB)
                /\ (x.b.sym # "-" /\ x.a.sym = "-") =>
                      ~ /\ args.resB[x.b.at] < 0
                        /\ \E j \in 1..Len(args.seqA) :
                              args.resA[j] > 0 /\ j # Len(args.seqA)

\* a column with A[j] opposite a gap that sits directly after B[i], where
\* resA[j] < 0, resB[i] > 0 and B[i] is not the last position of B; or the
\* same with A and B exchanged
ForbiddenColumn(x) ==
    \/ /\ x.a.sym # "-" /\ x.b.sym = "-" /\ x.b.at >= 1
       /\ args.resA[x.a.at] < 0
       /\ args.resB[x.b.at] > 0
       /\ x.b.at # Len(args.seqB)
    \/ /\ x.b.sym # "-" /\ x.a.sym = "-" /\ x.a.at >= 1
       /\ args.resB[x.b.at] < 0
       /\ args.resA[x.a.at] > 0
       /\ x.a.at # Len(args.seqA)

\* a gap step of the traceback taken from a cell whose restriction fired
ForbiddenStep(s) ==
    LET i == s[1]
        j == s[2]
    IN  /\ i >= 1
        /\ j >= 1
        /\ \/ /\ s[3] = 3
              /\ args.resB[i] < 0 /\ args.resA[j] > 0 /\ j # Len(args.seqA)
           \/ /\ s[3] = 2
              /\ args.resA[j] < 0 /\ args.resB[i] > 0 /\ i # Len(args.seqB)

\* C3, amended: with scores far smaller than 1000000, (a) in every mode the
\* traceback takes no gap step (traceback value 2 or 3) from a cell whose
\* restriction fired, and (b) in global, local, overlap and dialign mode no
\* column has A[j] opposite a "-" that sits directly after B[i] when
\* resA[j] < 0, resB[i] > 0 and i is not the last position of B, and the
\* same with A and B exchanged.  Gaps before the first symbol of the other
\* sequence are not restricted, a restriction concerns only the position
\* directly before the gap, and the gaps that repeats mode inserts when it
\* skips a 0 cell are not restricted.
C3_RestrictionAtCell ==
    Returned =>
        /\ \A n \in DOMAIN kern.path : ~ForbiddenStep(kern.path[n])
        /\ args.mode # "repeats" =>
              \A c \in DOMAIN Columns(ret) : ~ForbiddenColumn(Columns(ret)[c])

\* a restriction fired at a cell of the traceback path, and the path has a
\* gap step elsewhere
C3_Witness ==
    /\ Returned
    /\ \E n \in DOMAIN kern.path :
          LET s == kern.path[n]
          IN  /\ s[1] >= 1 /\ s[2] >= 1
              /\ args.resA[s[2]] < 0 /\ args.resB[s[1]] > 0
              /\ s[1] # Len(args.seqB)
    /\ \E n \in DOMAIN kern.path : kern.path[n][3] = 2 /\ kern.path[n][1] >= 1

(***************************************************************************)
(* C6.  The region outside "*" in local and repeats mode.                  *)
(***************************************************************************)
\* the longest sequence of the inputs of local and repeats mode
MaxLocalLen == 3

LocalASites ==
    { Site("a", -2, 0, "V"), Site("b", 0, -1, "C"), Site("b", 2, 1, "C") }

LocalBSites ==
    { Site("a", -2, 0, "V"), Site("b", 2, 1, "C") }

InitLocal ==
    /\ op = "align_pairwise"
    /\ pc = "called"
    /\ \E mode \in {"local", "repeats"},
          a \in SequencesUpTo(LocalASites, MaxLocalLen),
          b \in SequencesUpTo(LocalBSites, MaxLocalLen),
          scale \in {1, 2} :
          args = PairwiseArgs(mode, a, b, Identity(2, -2), scale, 0)
    /\ loc = <<>>
    /\ scorer = <<>>
    /\ kern = <<>>
    /\ ret = <<>>

SpecLocal == InitLocal /\ [][NextAlign]_vars

\* no "*" between two entries that are not "*"
OneBlock(out) ==
    \A p, q, r \in 1..Len(out) :
        (p < q /\ q < r /\ out[p] # "*" /\ out[r] # "*") => out[q] # "*"

\* x is seq[p..q] for some p and q (the empty sequence included)
IsSubstring(x, seq) ==
    \E p \in 1..Len(seq) + 1, q \in 0..Len(seq) : x = SubSeq(seq, p, q)

\* C6: in local and repeats mode the entries of outA that are not "*" form
\* one block, no "*" stands between two of them, and the input symbols of
\* the block are a contiguous substring of A in order; likewise outB and B.
C6_LocalRegionContiguous ==
    (Returned /\ args.mode \in {"local", "repeats"}) =>
        /\ OneBlock(ret.outA)
        /\ OneBlock(ret.outB)
        /\ IsSubstring(Without(ret.outA, {"-", "*"}), args.seqA)
        /\ IsSubstring(Without(ret.outB, {"-", "*"}), args.seqB)

\* a local alignment whose traceback starts with a gap step at the maximum
\* cell, which lies before the last column, and with "*" in front of the
\* block of A
C6_Witness ==
    /\ Returned
    /\ args.mode = "local"
    /\ kern.path # <<>>
    /\ kern.path[1][3] = 3
    /\ kern.jmax < Len(args.seqA)
    /\ ret.outA[1] = "*"
    /\ \E n \in 1..Len(ret.outA) : ret.outA[n] # "*"

(***************************************************************************)
(* C4.  A sequence aligned with itself in global mode.                     *)
(***************************************************************************)
Scores == {-1, 1, 3}

IdentitySites ==
    { Site("a", -2, 0, "V"), Site("a", 2, 0, "V"), Site("b", -2, 0, "C"),
      Site("b", 0, 0, "C") }

InitIdentity ==
    /\ op = "align_pairwise"
    /\ pc = "called"
    /\ \E a \in Sequences(IdentitySites),
          score_dict \in [Symbols \X Symbols -> Scores],
          scale \in {1, 2}, sonority_factor \in {0, 1} :
          args = PairwiseArgs("global", a, a, score_dict, scale, sonority_factor)
    /\ loc = <<>>
    /\ scorer = <<>>
    /\ kern = <<>>
    /\ ret = <<>>

SpecIdentity == InitIdentity /\ [][NextAlign]_vars

RECURSIVE IdentitySum(_, _, _)
IdentitySum(seq, score_dict, n) ==
    IF n = 0 THEN 0
    ELSE IdentitySum(seq, score_dict, n - 1) + score_dict[<<seq[n], seq[n]>>]

\* every identical pair scores strictly above every gap weight
IdenticalAboveGaps ==
    \A x \in Symbols, k \in 1..Len(args.wghA) :
        args.score_dict[<<x, x>>] > args.wghA[k]

SelfAlignment ==
    /\ Returned
    /\ args.mode = "global"
    /\ args.seqB = args.seqA /\ args.wghB = args.wghA /\ args.prsB = args.prsA
    /\ \A k \in 1..Len(args.seqA) : args.resA[k] = 0 /\ args.resB[k] = 0

IdentityResult ==
    /\ ret.outA = args.seqA
    /\ ret.outB = args.seqA
    /\ ret.sim = IdentitySum(args.seqA, args.score_dict, Len(args.seqA))
                    * (1 + args.sonority_factor)

\* C4 as stated: in global mode a sequence aligned with itself, with every
\* sigma(x,x) strictly above every gap weight, comes back unchanged on both
\* sides, without "-", and sim is the sum of sigma(A[i],A[i]) times
\* 1 + sonority_factor; whatever the other scores and the sign of the weights.
C4_IdentityAlignmentAnyMapping ==
    (SelfAlignment /\ IdenticalAboveGaps) => IdentityResult

\* C4, amended: the same, provided also that no gap weight is positive, that
\* scale and sonority_factor are not negative, that every sigma(x,x) is at
\* least 0, and that no pair of different symbols scores above the identical
\* pair of either of its symbols.
C4_IdentityAlignment ==
    ( /\ SelfAlignment
      /\ IdenticalAboveGaps
      /\ \A k \in 1..Len(args.wghA) : args.wghA[k] <= 0
      /\ args.scale >= 0
      /\ args.sonority_factor >= 0
      /\ \A x \in Symbols : args.score_dict[<<x, x>>] >= 0
      /\ \A x, y \in Symbols :
            /\ args.score_dict[<<x, y>>] <= args.score_dict[<<x, x>>]
            /\ args.score_dict[<<x, y>>] <= args.score_dict[<<y, y>>] )
    => IdentityResult

\* two different symbols, one pair of them scoring as high as the identical
\* pairs, a zero gap weight and the bonus for equal prosody
C4_Witness ==
    /\ SelfAlignment
    /\ IdenticalAboveGaps
    /\ Len(args.seqA) = MaxLen
    /\ args.seqA[1] # args.seqA[2]
    /\ args.wghA[1] = 0
    /\ args.sonority_factor = 1
    /\ args.score_dict[<<"a", "b">>] = 1
    /\ args.score_dict[<<"a", "a">>] = 1
    /\ args.score_dict[<<"b", "b">>] = 1
    /\ IdentityResult

(***************************************************************************)
(* C5.  Global mode with scale 1 and no restriction: Needleman-Wunsch.     *)
(***************************************************************************)
NWASites ==
    { Site("a", -2, 0, "V"), Site("b", -2, 0, "C"), Site("a", 0, 0, "V"),
      Site("b", 2, 0, "C") }

NWBSites ==
    { Site("a", -2, 0, "V"), Site("b", 0, 0, "C"), Site("a", 2, 0, "V") }

\* a mapping that is not symmetric and prefers a pair of different symbols
Skewed ==
    [p \in Symbols \X Symbols |->
        IF p = <<"a", "a">> THEN 1
        ELSE IF p = <<"a", "b">> THEN 3
        ELSE IF p = <<"b", "a">> THEN -1
        ELSE 2]

InitNW ==
    /\ op = "align_pairwise"
    /\ pc = "called"
    /\ \E a \in Sequences(NWASites), b \in Sequences(NWBSites),
          score_dict \in {Identity(2, -2), Identity(1, -3), Skewed},
          sonority_factor \in {0, 1} :
          args = PairwiseArgs("global", a, b, score_dict, 2, sonority_factor)
    /\ loc = <<>>
    /\ scorer = <<>>
    /\ kern = <<>>
    /\ ret = <<>>

SpecNW == InitNW /\ [][NextAlign]_vars

\* all global alignments of B[1..i] with A[1..j], each as the sequence of its
\* columns from the last to the first: 1 a matched column, 3 a symbol of B
\* opposite a gap, 2 a symbol of A opposite a gap
RECURSIVE Alignments(_, _)
Alignments(i, j) ==
    IF i = 0 /\ j = 0 THEN {<<>>}
    ELSE (IF i > 0 /\ j > 0
          THEN {<<1>> \o p : p \in Alignments(i - 1, j - 1)} ELSE {})
         \cup (IF i > 0 THEN {<<3>> \o p : p \in Alignments(i - 1, j)} ELSE {})
         \cup (IF j > 0 THEN {<<2>> \o p : p \in Alignments(i, j - 1)} ELSE {})

\* the Needleman-Wunsch objective of an alignment that ends in (i, j)
RECURSIVE Objective(_, _, _, _)
Objective(S, p, i, j) ==
    IF p = <<>> THEN 0
    ELSE IF Head(p) = 1 THEN S[i][j] + Objective(S, Tail(p), i - 1, j - 1)
    ELSE IF Head(p) = 3 THEN S[i][0] + Objective(S, Tail(p), i - 1, j)
    ELSE S[0][j] + Objective(S, Tail(p), i, j - 1)

\* the objective of the returned alignment, read off its columns
ColumnScore(S, x) ==
    IF x.a.sym # "-" /\ x.b.sym # "-" THEN S[x.b.at][x.a.at]
    ELSE IF x.b.sym = "-" THEN S[0][x.a.at]
    ELSE S[x.b.at][0]

RECURSIVE ReturnedScore(_, _, _)
ReturnedScore(S, cols, n) ==
    IF n = 0 THEN 0
    ELSE ReturnedScore(S, cols, n - 1) + ColumnScore(S, cols[n])

\* C5: in global mode with scale 1 and all restrictions 0, sim is the
\* maximum of the Needleman-Wunsch objective over all global alignments of
\* A and B, and the returned alignment has exactly that score.
C5_GlobalOptimal ==
    ( /\ Returned
      /\ args.mode = "global"
      /\ args.scale = 2
      /\ \A k \in 1..Len(args.resA) : args.resA[k] = 0
      /\ \A k \in 1..Len(args.resB) : args.resB[k] = 0 )
    => LET lA == Len(args.seqA)
           lB == Len(args.seqB)
           all == {Objective(scorer, p, lB, lA) : p \in Alignments(lB, lA)}
       IN  /\ ret.sim \in all
           /\ \A v \in all : v <= ret.sim
           /\ Len(ret.outA) = Len(ret.outB)
           /\ ReturnedScore(scorer, Columns(ret), Len(ret.outA)) = ret.sim

\* an optimal alignment that gaps both sequences
C5_Witness ==
    /\ Returned
    /\ args.mode = "global"
    /\ args.scale = 2
    /\ Len(args.seqA) = MaxLen
    /\ Len(args.seqB) = MaxLen
    /\ \E n \in 1..Len(ret.outA) : ret.outA[n] = "-"
    /\ \E n \in 1..Len(ret.outB) : ret.outB[n] = "-"
    /\ \E n \in 1..Len(ret.outA) : ret.outA[n] # "-" /\ ret.outB[n] # "-"

(***************************************************************************)
(* edit_dist.  The result is the quotient num / den of two floats that     *)
(* hold small integers exactly; den = 0 stands for 0.0 / 0.0.              *)
(***************************************************************************)
MaxEditLen == 3

\* faulty variant: every pair of symbols is charged
EditPenaltyAlways(x, y) == 1

EditPenalty(x, y) == IF x = y THEN 0 ELSE 1

\* faulty variant: the last branch is taken for match as well
EditMinForgetsGapB(gapA, match, gapB) ==
    IF gapA <= match /\ gapA <= gapB THEN gapA ELSE match

EditMin(gapA, match, gapB) ==
    IF gapA <= match /\ gapA <= gapB THEN gapA
    ELSE IF match < gapB THEN match
    ELSE gapB

\* the matrix after the cells before (i, j), in row order, are filled
RECURSIVE EditFill(_, _, _, _, _, _)
EditFill(seqA, seqB, m, n, matrix, c) ==
    IF c = n * m THEN matrix
    ELSE LET i == RowOf(c, m)
             j == ColOf(c, m)
             gapA == matrix[i - 1][j] + 1
             match == matrix[i - 1][j - 1] + EditPenalty(seqA[j], seqB[i])
             gapB == matrix[i][j - 1] + 1
         IN  EditFill(seqA, seqB, m, n,
                      [matrix EXCEPT ![i][j] = EditMin(gapA, match, gapB)],
                      c + 1)

EditMatrix(seqA, seqB) ==
    LET m == Len(seqA)
        n == Len(seqB)
        first == [i \in 0..n |-> [j \in 0..m |->
                     IF i = 0 THEN j ELSE IF j = 0 THEN i ELSE 0]]
    IN  EditFill(seqA, seqB, m, n, first, 0)

edit_dist(seqA, seqB) ==
    LET m == Len(seqA)
        n == Len(seqB)
    IN  [num |-> EditMatrix(seqA, seqB)[n][m],
         den |-> IF n > m THEN n ELSE m]

EditDist ==
    /\ op = "edit_dist"
    /\ pc = "called"
    /\ pc' = "returned"
    /\ ret' = edit_dist(args.seqA, args.seqB)
    /\ UNCHANGED <<op, args, loc, scorer, kern>>

InitEdit ==
    /\ op = "edit_dist"
    /\ pc = "called"
    /\ \E seqA \in UNION {[1..n -> {"a", "b", "c"}] : n \in 0..MaxEditLen},
          seqB \in UNION {[1..n -> {"a", "x", "c"}] : n \in 0..MaxEditLen} :
          args = [seqA |-> seqA, seqB |-> seqB]
    /\ loc = <<>>
    /\ scorer = <<>>
    /\ kern = <<>>
    /\ ret = <<>>

NextEdit == EditDist

SpecEdit == InitEdit /\ [][NextEdit]_vars

Min3(x, y, z) ==
    IF x <= y /\ x <= z THEN x ELSE IF y <= z THEN y ELSE z

\* the least number of insertions, deletions and substitutions that turn a
\* into b, by what is done to the first symbols
RECURSIVE Levenshtein(_, _)
Levenshtein(a, b) ==
    IF a = <<>> THEN Len(b)
    ELSE IF b = <<>> THEN Len(a)
    ELSE IF Head(a) = Head(b) THEN Levenshtein(Tail(a), Tail(b))
    ELSE 1 + Min3(Levenshtein(Tail(a), b),
                  Levenshtein(a, Tail(b)),
                  Levenshtein(Tail(a), Tail(b)))

EditReturned ==
    /\ op = "edit_dist"
    /\ pc = "returned"
    /\ args.seqA # <<>>
    /\ args.seqB # <<>>

PositionalEquality ==
    \E p \in 1..Len(args.seqA) :
        p <= Len(args.seqB) /\ args.seqA[p] = args.seqB[p]

\* C7: for non-empty A and B, edit_dist(A, B) is the unit-cost Levenshtein
\* distance divided by max(lA, lB); edit_dist([a,b,c],[a,x,c]) = 1/3,
\* edit_dist(A, A) = 0, and the result lies between 0 and 1.
C7_EditDistIsLevenshtein ==
    EditReturned =>
        LET lA == Len(args.seqA)
            lB == Len(args.seqB)
        IN  /\ ret.num = Levenshtein(args.seqA, args.seqB)
            /\ ret.den = (IF lA > lB THEN lA ELSE lB)
            /\ (args.seqA = <<"a", "b", "c">> /\ args.seqB = <<"a", "x", "c">>)
                  => (ret.num = 1 /\ ret.den = 3)
            /\ args.seqA = args.seqB => ret.num = 0
            /\ 0 <= ret.num /\ ret.num <= ret.den /\ ret.den > 0

\* sequences of different lengths with a common symbol, at a distance
\* strictly between 0 and 1
C7_Witness ==
    /\ EditReturned
    /\ Len(args.seqA) = MaxEditLen
    /\ Len(args.seqB) < Len(args.seqA)
    /\ \E p \in 1..Len(args.seqA) : args.seqA[p] = args.seqB[1]
    /\ ~PositionalEquality
    /\ 0 < ret.num /\ ret.num < ret.den

\* C8 as stated: for non-empty A and B, edit_dist(A, B) = 1 exactly when no
\* index p < min(lA, lB) has A[p] = B[p].
C8_OneIffNoPositionalEquality ==
    EditReturned => ((ret.num = ret.den) <=> ~PositionalEquality)

\* C8, amended: for non-empty A and B, edit_dist(A, B) = 1 only when no index
\* p < min(lA, lB) has A[p] = B[p].
C8_OneOnlyIfNoPositionalEquality ==
    EditReturned => ((ret.num = ret.den) => ~PositionalEquality)

\* a distance of 1 between sequences of different lengths
C8_Witness ==
    /\ EditReturned
    /\ ret.num = ret.den
    /\ Len(args.seqA) > 1
    /\ Len(args.seqB) > Len(args.seqA)
    /\ ~PositionalEquality

(***************************************************************************)
(* The drivers over lists of sequences.                                    *)
(***************************************************************************)
MaxSeqs == 2

MaxRuns == 2

WordAB == <<Site("a", -2, 0, "V"), Site("b", -2, 0, "C")>>

WordB == <<Site("b", -2, 0, "C")>>

WordBA == <<Site("b", 0, 1, "C"), Site("a", -2, -1, "V")>>

Words == {WordAB, WordB, WordBA}

WordPairs == {<<WordAB, WordB>>, <<WordBA, WordAB>>, <<WordB, WordBA>>}

ListsUpTo(items, max) == UNION {[1..n -> items] : n \in 0..max}

\* a mode string that is none of the five
OtherMode == "foo"

\* the parallel lists of align_sequences_pairwise
AllPairsArgs(mode, words, score_dict, scale, sonority_factor) ==
    [mode |-> mode,
     seqs |-> [k \in 1..Len(words) |-> Field(words[k], "sym")],
     weights |-> [k \in 1..Len(words) |-> Field(words[k], "wgh")],
     restrictions |-> [k \in 1..Len(words) |-> Field(words[k], "res")],
     prosodics |-> [k \in 1..Len(words) |-> Field(words[k], "prs")],
     score_dict |-> score_dict, scale |-> scale,
     sonority_factor |-> sonority_factor]

PairFields(pairs, f) ==
    [k \in 1..Len(pairs) |-> <<Field(pairs[k][1], f), Field(pairs[k][2], f)>>]

\* the parallel lists of the two drivers over pairs
PairsArgs(mode, pairs, score_dict, scale, sonority_factor) ==
    [mode |-> mode,
     seqs |-> PairFields(pairs, "sym"),
     weights |-> PairFields(pairs, "wgh"),
     restrictions |-> PairFields(pairs, "res"),
     prosodics |-> PairFields(pairs, "prs"),
     score_dict |-> score_dict, scale |-> scale,
     sonority_factor |-> sonority_factor]

InitPairwise ==
    /\ op = "align_pairwise"
    /\ \E mode \in Modes \cup {OtherMode}, p \in WordPairs,
          score_dict \in {Identity(2, -2), Skewed} :
          args = PairwiseArgs(mode, p[1], p[2], score_dict, 1, 1)
    /\ loc = <<>>

InitAllPairs ==
    /\ op = "align_sequences_pairwise"
    /\ \E mode \in Modes \cup {OtherMode}, words \in ListsUpTo(Words, MaxSeqs),
          score_dict \in {Identity(2, -2), Skewed} :
          args = AllPairsArgs(mode, words, score_dict, 1, 1)
    /\ loc = AllPairsLocals(args.mode)

InitPairs ==
    /\ op = "align_sequence_pairs"
    /\ \E mode \in Modes \cup {OtherMode}, pairs \in ListsUpTo(WordPairs, MaxSeqs),
          score_dict \in {Identity(2, -2), Skewed} :
          args = PairsArgs(mode, pairs, score_dict, 1, 1)
    /\ loc = PairsLocals(args.mode)

InitRandom ==
    /\ op = "random_align_sequence_pairs"
    /\ \E mode \in Modes \cup {OtherMode}, pairs \in ListsUpTo(WordPairs, MaxSeqs),
          runs \in -1..MaxRuns :
          args = [runs |-> runs] @@ PairsArgs(mode, pairs, Identity(2, -2), 1, 1)
    /\ loc = RandomLocals(args.mode, Len(args.seqs))

InitDrivers ==
    /\ pc = "called"
    /\ InitPairwise \/ InitAllPairs \/ InitPairs \/ InitRandom
    /\ scorer = <<>>
    /\ kern = <<>>
    /\ ret = <<>>

NextDrivers ==
    \/ AlignPairwise
    \/ AlignSequencesPairwise
    \/ AlignSequencesPairwiseReturn
    \/ AlignSequencePairs
    \/ AlignSequencePairsReturn
    \/ RandomShuffle
    \/ RandomAlignSequencePairs
    \/ RandomAlignSequencePairsReturn

SpecDrivers == InitDrivers /\ [][NextDrivers]_vars

\* C9: a driver called with a mode that is none of "global", "local",
\* "overlap", "repeats", "dialign" ends in an error raised at the call: it
\* never runs a kernel, and it never returns a result.
C9_UnknownModeIsError ==
    args.mode \notin Modes =>
        /\ kern = <<>>
        /\ pc \in {"called", "raised"}
        /\ ret = <<>>

\* C10: random_align_sequence_pairs called with runs <= 0 ends in an error;
\* it returns no mapping.
C10_RunsNotPositiveIsError ==
    (op = "random_align_sequence_pairs" /\ args.runs <= 0) =>
        pc \in {"called", "raised"}

(***************************************************************************)
(* C11.  align_sequences_pairwise against align_pairwise.                  *)
(***************************************************************************)
\* the longest list handed to align_sequences_pairwise
MaxWords == 3

InitWords ==
    /\ op = "align_sequences_pairwise"
    /\ pc = "called"
    /\ \E mode \in Modes, words \in ListsUpTo(Words, MaxWords),
          score_dict \in {Identity(2, -2), Skewed} :
          args = AllPairsArgs(mode, words, score_dict, 1, 1)
    /\ loc = AllPairsLocals(args.mode)
    /\ scorer = <<>>
    /\ kern = <<>>
    /\ ret = <<>>

NextAllPairs == AlignSequencesPairwise \/ AlignSequencesPairwiseReturn

SpecAllPairs == InitWords /\ [][NextAllPairs]_vars

\* sigma'(a, b) = sigma(b, a)
Transposed(score_dict) ==
    [p \in DOMAIN score_dict |-> score_dict[<<p[2], p[1]>>]]

\* the place of the pair (i, j) among the pairs i < j of 1..n in
\* lexicographic order
Rank(i, j, n) ==
    1 + Cardinality({p \in (1..n) \X (1..n) :
                        /\ p[1] < p[2]
                        /\ p[1] < i \/ (p[1] = i /\ p[2] < j)})

\* what align_pairwise returns for entries i and j of the lists of the
\* call, with score_dict in place of the mapping of the call
PairwiseResult(i, j, score_dict) ==
    LET a == [AllPairsOperands(args, i, j) EXCEPT !.score_dict = score_dict]
        r == AlignPair(a, Scorer(a), args.mode)
    IN  IF r.outcome = "returned"
        THEN [outA |-> r.outA, outB |-> r.outB, sim |-> r.sim]
        ELSE r.outcome

AllPairsReturned ==
    /\ op = "align_sequences_pairwise"
    /\ pc = "returned"
    /\ args.mode \in Modes

\* C11: align_sequences_pairwise on n sequences returns n(n-1)/2 results,
\* one per pair i < j in lexicographic order, and the result of the pair
\* (i, j) is what align_pairwise returns for seqs[i], seqs[j] with the
\* transposed mapping sigma'(a, b) = sigma(b, a).
C11_AllPairsIsPairwiseTransposed ==
    AllPairsReturned =>
        LET n == Len(args.seqs)
        IN  /\ 2 * Len(ret) = n * (n - 1)
            /\ \A i, j \in 1..n :
                  i < j => ret[Rank(i, j, n)]
                              = PairwiseResult(i, j, Transposed(args.score_dict))

\* three different sequences, a mapping that is not symmetric, and a pair
\* whose result differs from that of align_pairwise with the mapping itself
C11_Witness ==
    /\ AllPairsReturned
    /\ Len(args.seqs) = MaxWords
    /\ \A i, j \in 1..Len(args.seqs) : i < j => args.seqs[i] # args.seqs[j]
    /\ args.score_dict = Skewed
    /\ \E i, j \in 1..Len(args.seqs) :
          /\ i < j
          /\ ret[Rank(i, j, Len(args.seqs))] # PairwiseResult(i, j, args.score_dict)

(***************************************************************************)
(* C12.  The table alm_pairs of random_align_sequence_pairs.               *)
(***************************************************************************)
RandomRunning ==
    /\ op = "random_align_sequence_pairs"
    /\ args.mode \in Modes

\* what aligning the pair of the key (v[i], i) afresh gives
FreshAlignment(key) ==
    LET a == PairOperands(args, key[1] + 1, key[2] + 1)
        r == AlignPair(a, Scorer(a), args.mode)
    IN  <<r.outA, r.outB>>

\* every stored entry is the alignment of the pair of its key
StoredIsFresh ==
    RandomRunning =>
        \A key \in DOMAIN loc.alm_pairs :
            loc.alm_pairs[key] = FreshAlignment(key)

\* no step changes or removes a stored entry
StoredIsKept ==
    RandomRunning =>
        \A key \in DOMAIN loc.alm_pairs :
            /\ key \in DOMAIN loc'.alm_pairs
            /\ loc'.alm_pairs[key] = loc.alm_pairs[key]

\* a pass of the loop over i at a stored key runs no kernel, stores nothing
\* and counts the stored alignment; a pass at a new key runs the kernel of
\* the mode and stores the alignment under that key alone
PassUsesTable ==
    (RandomRunning /\ pc = "called" /\ loc.at = "pair") =>
        LET key == <<loc.v[loc.i + 1], loc.i>>
        IN  IF key \in DOMAIN loc.alm_pairs
            THEN /\ scorer' = scorer
                 /\ kern' = kern
                 /\ loc'.alm_pairs = loc.alm_pairs
                 /\ pc' = "called" =>
                       loc'.corrs = Correspondences(args.mode, loc.corrs,
                                        loc.alm_pairs[key][1],
                                        loc.alm_pairs[key][2]).corrs
            ELSE /\ kern'.ran = args.mode
                 /\ pc' = "called" =>
                       DOMAIN loc'.alm_pairs = DOMAIN loc.alm_pairs \cup {key}

\* C12: in one call of random_align_sequence_pairs a kernel runs at most
\* once for each key (v[i], i): the first pass at a key aligns the pair
\* (seqs[v[i]][0], seqs[i][1]) and stores it in alm_pairs, every later pass
\* at that key reuses the stored (outA, outB), which is what aligning the
\* pair afresh gives, and no stored entry is ever changed or removed.
C12_AlignedOncePerKey ==
    /\ []StoredIsFresh
    /\ [][StoredIsKept /\ PassUsesTable]_vars

\* a call that went through every key twice and returned
C12_Witness ==
    /\ RandomRunning
    /\ pc = "returned"
    /\ args.runs = MaxRuns
    /\ Len(args.seqs) = MaxSeqs
    /\ args.seqs[1] # args.seqs[2]
    /\ Cardinality(DOMAIN loc.alm_pairs) = MaxSeqs
    /\ loc.alm_pairs[<<0, 0>>] # loc.alm_pairs[<<1, 1>>]

(***************************************************************************)
(* C13, C19.  The diagonals of dialign mode.                               *)
(***************************************************************************)
MaxDialignLen == 3

DialignSymbols == {"k", "a"}

DialignIdentity(same, other) ==
    [p \in DialignSymbols \X DialignSymbols |->
        IF p[1] = p[2] THEN same ELSE other]

\* a mapping that prefers a pair of different symbols
DialignCross ==
    [p \in DialignSymbols \X DialignSymbols |->
        IF p[1] = p[2] THEN -1 ELSE 2]

DialignASites ==
    { Site("k", 0, 0, "C"), Site("a", 0, 0, "V"), Site("k", 0, 1, "C") }

DialignBSites ==
    { Site("k", 0, 0, "C"), Site("a", 0, 0, "V"), Site("a", 0, -1, "V") }

\* the sequence x with every restriction multiplied by sign
Signed(x, sign) == [k \in 1..Len(x) |-> [x[k] EXCEPT !.res = sign * @]]

InitDialign ==
    /\ op = "align_pairwise"
    /\ pc = "called"
    /\ \E a \in SequencesUpTo(DialignASites, MaxDialignLen),
          b \in SequencesUpTo(DialignBSites, MaxDialignLen),
          sign \in {1, -1},
          score_dict \in {DialignIdentity(3, 0), DialignCross} :
          args = PairwiseArgs("dialign", Signed(a, sign), Signed(b, sign),
                              score_dict, 2, 0)
    /\ loc = <<>>
    /\ scorer = <<>>
    /\ kern = <<>>
    /\ ret = <<>>

SpecDialign == InitDialign /\ [][NextAlign]_vars

\* A = B = [k, a], sigma(k,k) = sigma(a,a) = 3, cross pairs 0, gap weights
\* and restrictions 0
TwoSymbolDiagonal ==
    /\ Returned
    /\ args.mode = "dialign"
    /\ args.seqA = <<"k", "a">>
    /\ args.seqB = <<"k", "a">>
    /\ args.score_dict = DialignIdentity(3, 0)
    /\ args.wghA = <<0, 0>> /\ args.wghB = <<0, 0>>
    /\ args.resA = <<0, 0>> /\ args.resB = <<0, 0>>

TwoSymbolResult ==
    /\ kern.traceback[2][2] = 1
    /\ kern.traceback[1][1] = 1
    /\ ret.outA = <<"k", "a">>
    /\ ret.outB = <<"k", "a">>
    /\ ret.sim = 6

\* C13 as stated: in dialign mode with A = B = [k, a], sigma(k,k) =
\* sigma(a,a) = 3, cross pairs 0 and gap weights 0, cell (2,2) selects a
\* winning diagonal of length 2 and writes traceback 1 at (2,2) and (1,1);
\* outA = outB = [k, a] and sim = 6.
C13_DiagonalOfLengthTwo ==
    TwoSymbolDiagonal =>
        /\ kern.lengths[2][2] = 2
        /\ TwoSymbolResult

\* C13 amended: with the same input, cell (2,2) selects the diagonal of
\* length 1 (the diagonal of length 2 scores 6 as well and the comparison
\* is strict), so it writes traceback 1 at (2,2) only; (1,1) holds the 1
\* that its own cell wrote; outA = outB = [k, a] and sim = 6.
C13_DiagonalOfLengthOne ==
    TwoSymbolDiagonal =>
        /\ kern.lengths[2][2] = 1
        /\ kern.lengths[1][1] = 1
        /\ kern.matrix[1][1] = 3
        /\ TwoSymbolResult

C13_Witness ==
    /\ TwoSymbolDiagonal
    /\ kern.ran = "dialign"
    /\ kern.matrix[2][2] = 6

\* the recurrence max(scoreA, matrix[i-1][j-1] + S[i][j], scoreB) with the
\* tie order of _dialign and no diagonal longer than one cell
SimpleCell(arrayA, lA, arrayB, lB, S, st, i, j) ==
    LET match  == st.matrix[i-1][j-1] + S[i][j]
        scoreA == IF arrayB[i] < 0 /\ arrayA[j] > 0 /\ j # lA
                  THEN st.matrix[i-1][j] - Penalty ELSE st.matrix[i-1][j]
        scoreB == IF arrayA[j] < 0 /\ arrayB[i] > 0 /\ i # lB
                  THEN st.matrix[i][j-1] - Penalty ELSE st.matrix[i][j-1]
        t == IF scoreA >= match /\ scoreA > scoreB THEN 3
             ELSE IF match > scoreB THEN 1 ELSE 2
        v == IF t = 3 THEN scoreA ELSE IF t = 1 THEN match ELSE scoreB
    IN  [matrix |-> [st.matrix EXCEPT ![i][j] = v],
         traceback |-> [st.traceback EXCEPT ![i][j] = t]]

RECURSIVE SimpleFill(_, _, _, _, _, _, _)
SimpleFill(arrayA, lA, arrayB, lB, S, st, n) ==
    IF n = lA * lB THEN st
    ELSE SimpleFill(arrayA, lA, arrayB, lB, S,
            SimpleCell(arrayA, lA, arrayB, lB, S, st,
                       ((n \div lA) + 1), ((n % lA) + 1)),
            n + 1)

\* the traceback of the simple recurrence: the gap counts of A and of B
RECURSIVE SimpleWalk(_, _, _, _, _)
SimpleWalk(traceback, i, j, almA, almB) ==
    IF i = 0 /\ j = 0 THEN [almA |-> almA, almB |-> almB]
    ELSE IF traceback[i][j] = 3
         THEN SimpleWalk(traceback, i - 1, j,
                         [almA EXCEPT ![j] = @ + 1], almB)
    ELSE IF traceback[i][j] = 1
         THEN SimpleWalk(traceback, i - 1, j - 1, almA, almB)
    ELSE SimpleWalk(traceback, i, j - 1, almA,
                    [almB EXCEPT ![i] = @ + 1])

SimpleDialign(arrayA, arrayB, S) ==
    LET lA == Len(arrayA)
        lB == Len(arrayB)
        st == SimpleFill(arrayA, lA, arrayB, lB, S,
                [matrix |-> [i \in 0..lB |-> [j \in 0..lA |-> 0]],
                 traceback |-> [i \in 0..lB |-> [j \in 0..lA |->
                     IF i = 0 /\ j = 0 THEN 1 ELSE IF i = 0 THEN 2
                     ELSE IF j = 0 THEN 3 ELSE 0]]], 0)
        w  == SimpleWalk(st.traceback, lB, lA,
                         [j \in 0..lA |-> 0], [i \in 0..lB |-> 0])
    IN  [sim |-> st.matrix[lB][lA], almA |-> w.almA, almB |-> w.almB,
         traceback |-> st.traceback]

\* C19: in dialign mode the selected diagonal length (old_length) is 1 at
\* every cell (i, j) with i, j >= 1, so a cell writes traceback[i][j] alone
\* and no cell written before is overwritten; _dialign returns the sim,
\* almA and almB of the recurrence matrix[i][j] = max(scoreA,
\* matrix[i-1][j-1] + S[i][j], scoreB) with the same tie order.
C19_DiagonalLengthIsOne ==
    (Returned /\ kern.ran = "dialign") =>
        LET s == SimpleDialign(args.resA, args.resB, scorer)
        IN  /\ \A i \in 1..Len(args.seqB), j \in 1..Len(args.seqA) :
                   kern.lengths[i][j] = 1
            /\ kern.traceback = s.traceback
            /\ kern.sim = s.sim
            /\ kern.almA = s.almA
            /\ kern.almB = s.almB

\* sequences of three symbols on both sides, a restricted cell, and a
\* diagonal of three cells whose sum is positive
C19_Witness ==
    /\ Returned
    /\ kern.ran = "dialign"
    /\ Len(args.seqA) = 3
    /\ Len(args.seqB) = 3
    /\ \E i \in 1..2, j \in 1..3 : RestrictedB(args.resA, args.resB, 3, i, j)
    /\ kern.traceback[1][1] = 1
    /\ kern.traceback[2][2] = 1
    /\ kern.traceback[3][3] = 1
    /\ scorer[1][1] + scorer[2][2] + scorer[3][3] = kern.sim

(***************************************************************************)
(* C14, C15.  The null candidate and the 0 cells of repeats mode.          *)
(***************************************************************************)
RepeatsRan == op = "align_pairwise" /\ pc # "called" /\ kern.ran = "repeats"

\* C14: in repeats mode the null candidate at every cell (i, j) is the one
\* of local mode: -1000000 when R_A(i,j) or R_B(i,j) holds and 0 otherwise;
\* in particular it is -1000000 when R_A(i,j) holds and R_B(i,j) does not.
C14_RepeatsNullAsLocal ==
    RepeatsRan =>
        \A i \in 1..Len(args.seqB), j \in 1..Len(args.seqA) :
            RepeatsNull(args.resA, Len(args.seqA), args.resB, Len(args.seqB),
                        kern.traceback, i, j)
              = LocalNull(args.resA, Len(args.seqA), args.resB, Len(args.seqB),
                          i, j)

\* the cell the traceback is at after the n-th step of its path
After(n) ==
    IF n < Len(kern.path)
    THEN <<kern.path[n + 1][1], kern.path[n + 1][2]>>
    ELSE <<kern.i, kern.j>>

\* C15: in repeats mode, when the traceback reaches a cell whose traceback
\* value is 0, it jumps to the nearest cell before it whose traceback value
\* is 1: the cell jumped to always has traceback value 1.
C15_JumpLandsOnMatch ==
    RepeatsRan =>
        \A n \in 1..Len(kern.path) :
            kern.path[n][3] = 0 =>
                kern.traceback[After(n)[1]][After(n)[2]] = 1

(***************************************************************************)
(* C16.  The marks of _local in almA and almB.                             *)
(***************************************************************************)
LocalReturned == Returned /\ kern.ran = "local"

\* the number of steps t that the traceback takes in row i (t = 2) or in
\* column j (t = 3)
StepsAt(t, at) ==
    Cardinality({n \in 1..Len(kern.path) :
        /\ kern.path[n][3] = t
        /\ kern.path[n][IF t = 3 THEN 2 ELSE 1] = at})

\* alm[k] = -1 for max <= k <= l-1 and for 0 <= k <= stop-1, alm[k] >= 0 for
\* every other k
MarkedOutside(alm, l, max, stop) ==
    \A k \in 0..l :
        IF (max <= k /\ k <= l - 1) \/ k <= stop - 1
        THEN alm[k] = -1
        ELSE alm[k] >= 0

\* the same, but alm[max] holds one less than the number of gap steps that
\* the traceback took there
MarkedOutsideButMax(alm, l, max, stop, steps) ==
    \A k \in 0..l :
        IF k <= stop - 1 THEN alm[k] = -1
        ELSE IF k = max /\ k <= l - 1 THEN alm[k] = steps - 1
        ELSE IF max < k /\ k <= l - 1 THEN alm[k] = -1
        ELSE alm[k] >= 0

Negative(wgh) == \A k \in 1..Len(wgh) : wgh[k] < 0

Candidates(i, j) ==
    LET lA == Len(args.seqA)
        lB == Len(args.seqB)
    IN  IF kern.ran = "global"
        THEN [gapA  |-> GapA(args.resA, lA, args.resB, scorer, args.scale,
                             kern.matrix, kern.traceback, i, j),
              match |-> Match(scorer, kern.matrix, i, j),
              gapB  |-> GapB(args.resA, args.resB, lB, scorer, args.scale,
                             kern.matrix, kern.traceback, i, j)]
        ELSE [gapA  |-> OverlapGapA(args.resA, lA, args.resB, scorer, args.scale,
                                    kern.matrix, kern.traceback, i, j),
              match |-> Match(scorer, kern.matrix, i, j),
              gapB  |-> OverlapGapB(args.resA, args.resB, lB, scorer, args.scale,
                                    kern.matrix, kern.traceback, i, j)]

Max3(x, y, z) ==
    IF x >= y /\ x >= z THEN x ELSE IF y >= z THEN y ELSE z

ChosenAsStated(c, value, t) ==
    /\ value = Max3(c.gapA, c.match, c.gapB)
    /\ t = 3 <=> (c.gapA > c.match /\ c.gapA >= c.gapB)
    /\ t = 1 <=> (~(c.gapA > c.match /\ c.gapA >= c.gapB) /\ c.match >= c.gapB)
    /\ t \in {1, 2, 3}
    /\ value = (IF t = 3 THEN c.gapA ELSE IF t = 1 THEN c.match ELSE c.gapB)

\* C17: in global and overlap mode every cell (i, j) with i, j >= 1 holds
\* the maximum of gapA, match and gapB, with traceback 3 only when gapA >
\* match and gapA >= gapB, traceback 1 when that is not so and match >= gapB,
\* and traceback 2 otherwise; the value stored is the candidate that the
\* traceback value names.
C17_CellIsMaximum ==
    (Returned /\ kern.ran \in {"global", "overlap"}) =>
        \A i \in 1..Len(args.seqB), j \in 1..Len(args.seqA) :
            ChosenAsStated(Candidates(i, j), kern.matrix[i][j],
                           kern.traceback[i][j])

\* an overlap alignment with a cell where gapA ties with match and the
\* match is taken, and a cell where gapB wins
C17_Witness ==
    /\ Returned
    /\ kern.ran = "overlap"
    /\ args.mode = "overlap"
    /\ \E i \in 1..Len(args.seqB), j \in 1..Len(args.seqA) :
          /\ Candidates(i, j).gapA = Candidates(i, j).match
          /\ Candidates(i, j).gapA >= Candidates(i, j).gapB
          /\ kern.traceback[i][j] = 1
    /\ \E i \in 1..Len(args.seqB), j \in 1..Len(args.seqA) :
          kern.traceback[i][j] = 2

(***************************************************************************)
(* C18.  The score of the returned global alignment.                       *)
(***************************************************************************)
GlobalReturned == Returned /\ kern.ran = "global" /\ args.mode = "global"

GapInA(x) == x.a.sym = "-"
GapInB(x) == x.b.sym = "-"

\* the weight of the position opposite the gap of column x
GapWeight(x) == IF GapInA(x) THEN scorer[x.b.at][0] ELSE scorer[0][x.a.at]

\* column c continues a run of gaps in the same sequence
ContinuesRun(cols, c) ==
    /\ c > 1
    /\ \/ GapInA(cols[c]) /\ GapInA(cols[c - 1])
       \/ GapInB(cols[c]) /\ GapInB(cols[c - 1])

\* the rule as stated: a gap is scaled exactly when the column before it is
\* a gap in the same sequence
StatedColumn(cols, c) ==
    IF ~GapInA(cols[c]) /\ ~GapInB(cols[c])
    THEN scorer[cols[c].b.at][cols[c].a.at]
    ELSE IF ContinuesRun(cols, c) THEN Times(GapWeight(cols[c]), args.scale)
    ELSE GapWeight(cols[c])

\* the rule of _global: a gap is scaled when the column before it is a gap
\* in the same sequence, or when it is the first column of the alignment
ChargedColumn(cols, c) ==
    IF ~GapInA(cols[c]) /\ ~GapInB(cols[c])
    THEN scorer[cols[c].b.at][cols[c].a.at]
    ELSE IF c = 1 \/ ContinuesRun(cols, c)
    THEN Times(GapWeight(cols[c]), args.scale)
    ELSE GapWeight(cols[c])

RECURSIVE StatedScore(_, _)
StatedScore(cols, n) ==
    IF n = 0 THEN 0 ELSE StatedScore(cols, n - 1) + StatedColumn(cols, n)

RECURSIVE ChargedScore(_, _)
ChargedScore(cols, n) ==
    IF n = 0 THEN 0 ELSE ChargedScore(cols, n - 1) + ChargedColumn(cols, n)

\* C18 as stated: in global mode sim is the score of the returned
\* alignment where a matched column contributes S[i][j] and a gap column
\* the gap weight of the position opposite the gap, multiplied by scale
\* exactly when the column before it is a gap in the same sequence, so that
\* the first gap of every run, one at the start included, is not scaled.
C18_SimIsStatedScore ==
    GlobalReturned =>
        ret.sim = StatedScore(Columns(ret), Len(ret.outA))

\* C18 amended: in global mode sim is the score of the returned alignment
\* where a matched column contributes S[i][j] and a gap column the gap
\* weight of the position opposite the gap, multiplied by scale when the
\* column before it is a gap in the same sequence or when it is the first
\* column of the alignment (every gap of a run at the start is scaled, the
\* first gap of any other run is not).
C18_SimIsChargedScore ==
    GlobalReturned =>
        /\ Len(ret.outA) = Len(ret.outB)
        /\ ret.sim = ChargedScore(Columns(ret), Len(ret.outA))

\* an alignment that starts with a gap whose weight is not 0, with scale
\* 0.5, and that has a matched column
C18_Witness ==
    /\ GlobalReturned
    /\ args.scale = 1
    /\ ret.outB[1] = "-"
    /\ scorer[0][1] # 0
    /\ \E c \in 1..Len(ret.outA) : ret.outA[c] # "-" /\ ret.outB[c] # "-"

(***************************************************************************)
(* C20.  The entries of a local alignment that are not "*".                *)
(***************************************************************************)
\* C20: in local mode outA and outB have the same number of entries that
\* are not "*", so the loop of random_align_sequence_pairs that pairs the
\* filtered lists by position, up to the length of the filtered outA, never
\* reads past the end of the filtered outB.
C20_LocalBlocksAgree ==
    (Returned /\ args.mode = "local") =>
        /\ Len(Without(ret.outA, {"*"})) = Len(Without(ret.outB, {"*"}))
        /\ ~Correspondences("local", <<>>, ret.outA, ret.outB).raised

\* a local alignment with different numbers of "*" on the two sides whose
\* traceback starts with a gap step at the maximum cell, before the last
\* column
C20_Witness ==
    /\ Returned
    /\ args.mode = "local"
    /\ Len(ret.outA) # Len(ret.outB)
    /\ kern.path # <<>>
    /\ kern.path[1][3] = 3
    /\ kern.jmax < Len(args.seqA)
    /\ Len(Without(ret.outA, {"*"})) > 1

(***************************************************************************)
(* The traceback loops of the kernels, one pass of the loop per step.      *)
(* op = "kernel": one kernel called on the arrays of one pair; loc holds   *)
(* its locals i, j, sim and the gap counts almA, almB it writes.           *)
(***************************************************************************)
MaxWalkLen == 2

InitKernel ==
    /\ op = "kernel"
    /\ pc = "called"
    /\ \E mode \in Modes,
          a \in SequencesUpTo(ASites, MaxWalkLen),
          b \in SequencesUpTo(BSites, MaxWalkLen) :
          args = PairwiseArgs(mode, a, b, Identity(2, -2), 1, 0)
    /\ loc = [at |-> "fill"]
    /\ scorer = <<>>
    /\ kern = <<>>
    /\ ret = <<>>

\* the matrices are filled and i, j are set to the cell the traceback starts
\* from; _local marks the positions behind that cell
KernelFill ==
    /\ op = "kernel"
    /\ pc = "called"
    /\ loc.at = "fill"
    /\ \E lA \in {Len(args.seqA)}, lB \in {Len(args.seqB)}, S \in {Scorer(args)} :
       \E r \in {Kernel(args.mode, args.resA, lA, args.resB, lB, S, args.scale,
                        Zeros(lA), Zeros(lB))} :
          /\ scorer' = S
          /\ IF args.mode = "local" /\ r.ub
             THEN /\ pc' = "undefined"
                  /\ kern' = [ran |-> args.mode, matrix |-> r.matrix,
                              traceback |-> r.traceback]
                  /\ loc' = loc
             ELSE /\ pc' = pc
                  /\ kern' = [ran |-> args.mode, matrix |-> r.matrix,
                              traceback |-> r.traceback,
                              imax |-> r.imax, jmax |-> r.jmax]
                  /\ loc' = [at |-> "walk", i |-> r.imax, j |-> r.jmax,
                             sim |-> r.matrix[r.imax][r.jmax],
                             almA |-> IF args.mode = "local"
                                      THEN Mark(Zeros(lA), r.jmax, lA)
                                      ELSE Zeros(lA),
                             almB |-> IF args.mode = "local"
                                      THEN Mark(Zeros(lB), r.imax, lB)
                                      ELSE Zeros(lB)]
    /\ UNCHANGED <<op, args, ret>>

\* faulty variant: a horizontal step does not move
WalkStepStaysOnGapB(t, i, j) ==
    IF t = 3 THEN <<i - 1, j>>
    ELSE IF t = 1 THEN <<i - 1, j - 1>>
    ELSE <<i, j>>

\* the cell a step with traceback value t goes to from (i, j)
WalkStep(t, i, j) ==
    IF t = 3 THEN <<i - 1, j>>
    ELSE IF t = 1 THEN <<i - 1, j - 1>>
    ELSE <<i, j - 1>>

InMatrix(i, j) == i \in DOMAIN kern.traceback /\ j \in DOMAIN kern.traceback[i]

KernelReturn(almA, almB) ==
    /\ pc' = "returned"
    /\ loc' = [loc EXCEPT !.almA = almA, !.almB = almB]
    /\ ret' = [sim |-> loc.sim, almA |-> almA, almB |-> almB]

\* the gap count that a step with traceback value t writes
Counted(t, i, j) ==
    IF t = 3 THEN [alm |-> "almA", k |-> j]
    ELSE IF t = 1 THEN [alm |-> "none", k |-> 0]
    ELSE [alm |-> "almB", k |-> i]

\* one pass of the loop body: the count is written, then i and j move
WalkBody(t) ==
    \E w \in {Counted(t, loc.i, loc.j)}, to \in {WalkStep(t, loc.i, loc.j)} :
        IF w.alm # "none" /\ w.k \notin DOMAIN loc[w.alm]
        THEN pc' = "undefined" /\ UNCHANGED <<loc, ret>>
        ELSE /\ pc' = pc
             /\ loc' = [loc EXCEPT
                    !.i = to[1], !.j = to[2],
                    !.almA = IF w.alm = "almA" THEN [@ EXCEPT ![w.k] = @ + 1] ELSE @,
                    !.almB = IF w.alm = "almB" THEN [@ EXCEPT ![w.k] = @ + 1] ELSE @]
             /\ ret' = ret

\* while(i > 0 || j > 0) of _global, _overlap and _dialign
TracebackStep ==
    /\ op = "kernel"
    /\ pc = "called"
    /\ loc.at = "walk"
    /\ kern.ran \in {"global", "overlap", "dialign"}
    /\ IF ~(loc.i > 0 \/ loc.j > 0)
       THEN KernelReturn(loc.almA, loc.almB)
       ELSE IF ~InMatrix(loc.i, loc.j)
       THEN pc' = "undefined" /\ UNCHANGED <<loc, ret>>
       ELSE WalkBody(IF kern.traceback[loc.i][loc.j] \in {1, 3}
                     THEN kern.traceback[loc.i][loc.j] ELSE 2)
    /\ UNCHANGED <<op, args, scorer, kern>>

\* while(traceback[i][j] != 0) of _local, and the marks before the cell
\* where it stops
LocalTracebackStep ==
    /\ op = "kernel"
    /\ pc = "called"
    /\ loc.at = "walk"
    /\ kern.ran = "local"
    /\ IF ~InMatrix(loc.i, loc.j)
       THEN pc' = "undefined" /\ UNCHANGED <<loc, ret>>
       ELSE IF kern.traceback[loc.i][loc.j] \notin {1, 2, 3}
       THEN KernelReturn(Mark(loc.almA, 0, loc.j), Mark(loc.almB, 0, loc.i))
       ELSE WalkBody(kern.traceback[loc.i][loc.j])
    /\ UNCHANGED <<op, args, scorer, kern>>

\* while(i > 0 || j > 0) of _repeats; at a cell with traceback value 0 the
\* scan, the gaps of the skipped distance and the jump
RepeatsTracebackStep ==
    /\ op = "kernel"
    /\ pc = "called"
    /\ loc.at = "walk"
    /\ kern.ran = "repeats"
    /\ IF ~(loc.i > 0 \/ loc.j > 0)
       THEN KernelReturn(loc.almA, loc.almB)
       ELSE IF ~InMatrix(loc.i, loc.j)
       THEN pc' = "undefined" /\ UNCHANGED <<loc, ret>>
       ELSE IF kern.traceback[loc.i][loc.j] \in {1, 2, 3}
       THEN WalkBody(kern.traceback[loc.i][loc.j])
       ELSE IF loc.i = 0 \/ loc.j = 0
       THEN \* l is read without a value (j = 0), or matrix[-1][-1] is read
            pc' = "undefined" /\ UNCHANGED <<loc, ret>>
       ELSE \E s \in {RepeatsScan(loc.i, loc.j)} :
            \E skipA \in {loc.j - s.k}, skipB \in {loc.i - s.l} :
               IF \/ ~InMatrix(s.l, s.k)
                  \/ skipB > 0 /\ (loc.j - skipA) \notin DOMAIN loc.almA
                  \/ skipA > 0 /\ loc.i \notin DOMAIN loc.almB
               THEN pc' = "undefined" /\ UNCHANGED <<loc, ret>>
               ELSE /\ pc' = pc
                    /\ loc' = [loc EXCEPT
                           !.almA = AddN(@, loc.j - skipA, skipB),
                           !.almB = AddN(@, loc.i, skipA),
                           !.i = s.l, !.j = s.k,
                           !.sim = @ + kern.matrix[s.l][s.k]]
                    /\ ret' = ret
    /\ UNCHANGED <<op, args, scorer, kern>>

NextKernel ==
    \/ KernelFill
    \/ TracebackStep
    \/ LocalTracebackStep
    \/ RepeatsTracebackStep

SpecKernel == InitKernel /\ [][NextKernel]_vars

\* a loop that was entered goes on: each pass that can be taken is taken
SpecKernelFair ==
    /\ SpecKernel
    /\ WF_vars(TracebackStep)
    /\ WF_vars(LocalTracebackStep)
    /\ WF_vars(RepeatsTracebackStep)

(***************************************************************************)
(* C21.  The traceback loops end and stay inside the arrays.               *)
(***************************************************************************)
Walking == op = "kernel" /\ loc.at = "walk"

\* no read or write outside an array, i and j inside the matrix, and no
\* traceback value 0 but in local and repeats mode
WalkInRange ==
    op = "kernel" =>
        /\ pc # "undefined"
        /\ loc.at = "walk" =>
              /\ 0 <= loc.i /\ loc.i <= Len(args.seqB)
              /\ 0 <= loc.j /\ loc.j <= Len(args.seqA)
              /\ DOMAIN loc.almA = 0..Len(args.seqA)
              /\ DOMAIN loc.almB = 0..Len(args.seqB)
              /\ \A i \in 0..Len(args.seqB), j \in 0..Len(args.seqA) :
                     kern.traceback[i][j] = 0 =>
                         kern.ran \in {"local", "repeats"}

\* a pass of the loop goes to (i-1, j-1), (i-1, j) or (i, j-1); the pass
\* that leaves the loop does not move
WalkMoves ==
    (Walking /\ pc = "called") =>
        IF pc' = "called"
        THEN <<loc'.i, loc'.j>> \in {<<loc.i - 1, loc.j - 1>>,
                                     <<loc.i - 1, loc.j>>,
                                     <<loc.i, loc.j - 1>>}
        ELSE <<loc'.i, loc'.j>> = <<loc.i, loc.j>>

\* C21: for each of the five kernels and lA, lB >= 1 the traceback loop
\* terminates, every step goes from (i, j) to (i-1, j-1), (i-1, j) or
\* (i, j-1), i and j stay within 0..lB and 0..lA, every write to almA and
\* almB is inside the array, and a traceback value 0 is stored by the local
\* and repeats kernels only.
C21_TracebackTerminatesInRange ==
    /\ []WalkInRange
    /\ [][WalkMoves]_vars
    /\ (Walking /\ pc = "called") ~> (pc = "returned")

\* in the middle of a traceback of _repeats, at a cell with value 0
C21_Witness ==
    /\ Walking
    /\ pc = "called"
    /\ kern.ran = "repeats"
    /\ loc.i >= 1
    /\ loc.j >= 1
    /\ loc.i + loc.j < Len(args.seqA) + Len(args.seqB)
    /\ kern.traceback[loc.i][loc.j] = 0

(***************************************************************************)
(* C22.  The last row and the last column of overlap mode.                 *)
(***************************************************************************)
\* C22: in overlap mode matrix values never decrease down the last column
\* (matrix[i][lA] >= matrix[i-1][lA]) nor along the last row (matrix[lB][j]
\* >= matrix[lB][j-1]), whatever the restrictions, so sim = matrix[lB][lA]
\* is the maximum over the cells of the last row and the last column, and
\* sim >= 0.
C22_OverlapTrailingGapsFree ==
    (Returned /\ kern.ran = "overlap") =>
        LET lA == Len(args.seqA)
            lB == Len(args.seqB)
        IN  /\ \A i \in 1..lB : kern.matrix[i][lA] >= kern.matrix[i-1][lA]
            /\ \A j \in 1..lA : kern.matrix[lB][j] >= kern.matrix[lB][j-1]
            /\ ret.sim = kern.matrix[lB][lA]
            /\ \A i \in 0..lB : ret.sim >= kern.matrix[i][lA]
            /\ \A j \in 0..lA : ret.sim >= kern.matrix[lB][j]
            /\ ret.sim >= 0

\* an overlap alignment with a restricted cell and a negative value inside
\* the matrix, whose last column holds a gap of B with a negative weight
C22_Witness ==
    /\ Returned
    /\ kern.ran = "overlap"
    /\ args.mode = "overlap"
    /\ Len(args.seqA) = 2
    /\ Len(args.seqB) = 2
    /\ \E i \in 1..2, j \in 1..2 : RestrictedA(args.resA, 2, args.resB, i, j)
    /\ kern.matrix[1][1] < 0
    /\ kern.traceback[2][2] = 3
    /\ scorer[2][0] < 0

(***************************************************************************)
(* C23.  The maximum cell of local mode.                                   *)
(***************************************************************************)
LocalRan == op = "align_pairwise" /\ pc # "called" /\ kern.ran = "local"

\* cell (i, j) is filled after cell (k, l)
ScannedAfter(i, j, k, l) == i > k \/ (i = k /\ j > l)

\* C23: in local mode, whatever the restrictions, some cell has a value
\* >= 0 during the fill, so imax and jmax are assigned before they are
\* read; sim is the maximum over all cells with i, j >= 1, of the cells
\* that hold it (imax, jmax) is the one filled last, and sim >= 0.
C23_LocalMaximumAssigned ==
    LocalRan =>
        /\ pc # "undefined"
        /\ ~kern.ub
        /\ kern.imax \in 1..Len(args.seqB)
        /\ kern.jmax \in 1..Len(args.seqA)
        /\ kern.sim = kern.matrix[kern.imax][kern.jmax]
        /\ kern.sim >= 0
        /\ \A i \in 1..Len(args.seqB), j \in 1..Len(args.seqA) :
              /\ kern.matrix[i][j] <= kern.sim
              /\ ScannedAfter(i, j, kern.imax, kern.jmax) =>
                     kern.matrix[i][j] < kern.sim
        /\ pc = "returned" => ret.sim = kern.sim

\* a local alignment in which two cells hold the maximum, a restricted
\* cell holds a value below 0, and the maximum is not at the last cell
C23_Witness ==
    /\ LocalRan
    /\ pc = "returned"
    /\ \E i \in 1..Len(args.seqB), j \in 1..Len(args.seqA) :
          /\ <<i, j>> # <<kern.imax, kern.jmax>>
          /\ kern.matrix[i][j] = kern.sim
    /\ \E i \in 1..Len(args.seqB), j \in 1..Len(args.seqA) :
          /\ LocalNull(args.resA, Len(args.seqA), args.resB, Len(args.seqB),
                       i, j) = -Penalty
          /\ kern.matrix[i][j] < 0
    /\ <<kern.imax, kern.jmax>> # <<Len(args.seqB), Len(args.seqA)>>

(***************************************************************************)
(* The whole program: any of the five functions, called once.              *)
(***************************************************************************)
Init ==
    \/ InitAlign
    \/ InitLocal
    \/ InitIdentity
    \/ InitNW
    \/ InitEdit
    \/ InitDrivers
    \/ InitWords
    \/ InitDialign
    \/ InitKernel

Next ==
    \/ AlignPairwise
    \/ AlignSequencesPairwise
    \/ AlignSequencesPairwiseReturn
    \/ AlignSequencePairs
    \/ AlignSequencePairsReturn
    \/ RandomShuffle
    \/ RandomAlignSequencePairs
    \/ RandomAlignSequencePairsReturn
    \/ EditDist
    \/ KernelFill
    \/ TracebackStep
    \/ LocalTracebackStep
    \/ RepeatsTracebackStep

Spec == Init /\ [][Next]_vars

====
